---- MODULE Spec2Model ----
(***************************************************************************)
(* HelixDB: the storage engine (helix-engine/src/storage_core) over an     *)
(* ordered key-value store with column families, and the traversal         *)
(* builder (helix-engine/src/graph_core) above it.                         *)
(*                                                                         *)
(* Keys and values are byte strings, modelled as sequences of character    *)
(* codes; a column family is a function from keys to values, iterated in   *)
(* lexicographic key order as RocksDB does.                                *)
(***************************************************************************)
EXTENDS Integers, Sequences, FiniteSets, TLC

(***************************************************************************)
(* Bounds of the model.                                                    *)
(***************************************************************************)
\* number of node ids the id generator hands out
MaxNodes == 2
\* number of edge ids the id generator hands out
MaxEdges == 2

(***************************************************************************)
(* Byte strings.                                                           *)
(***************************************************************************)
Min(a, b) == IF a < b THEN a ELSE b

\* slice::starts_with
StartsWith(key, prefix) ==
    /\ Len(prefix) <= Len(key)
    /\ \A i \in 1..Len(prefix) : key[i] = prefix[i]

\* bytewise comparator of the key-value store: a < b
LexLess(a, b) ==
    \E i \in 1..(Min(Len(a), Len(b)) + 1) :
        /\ \A j \in 1..(i - 1) : a[j] = b[j]
        /\ \/ i > Len(a) /\ i <= Len(b)
           \/ i <= Len(a) /\ i <= Len(b) /\ a[i] < b[i]

\* [a, b, ...].concat()
RECURSIVE Concat(_)
Concat(parts) ==
    IF parts = <<>> THEN <<>> ELSE Head(parts) \o Concat(Tail(parts))

(***************************************************************************)
(* Column families and key prefixes.                                       *)
(***************************************************************************)
CF_NODES == "nodes"
CF_EDGES == "edges"
CF_INDICES == "indices"
ColumnFamilies == {CF_NODES, CF_EDGES, CF_INDICES}

NODE_PREFIX == <<110, 58>>              \* b"n:"
EDGE_PREFIX == <<101, 58>>              \* b"e:"
NODE_LABEL_PREFIX == <<110, 108, 58>>   \* b"nl:"
EDGE_LABEL_PREFIX == <<101, 108, 58>>   \* b"el:"
OUT_EDGES_PREFIX == <<111, 58>>         \* b"o:"
IN_EDGES_PREFIX == <<105, 58>>          \* b"i:"
COLON == <<58>>                         \* b":"

node_key(id) == Concat(<<NODE_PREFIX, id>>)
edge_key(id) == Concat(<<EDGE_PREFIX, id>>)
node_label_key(label, id) == Concat(<<NODE_LABEL_PREFIX, label, COLON, id>>)
edge_label_key(label, id) == Concat(<<EDGE_LABEL_PREFIX, label, COLON, id>>)
out_edge_key(source_node_id, edge_id) ==
    Concat(<<OUT_EDGES_PREFIX, source_node_id, COLON, edge_id>>)
in_edge_key(sink_node_id, edge_id) ==
    Concat(<<IN_EDGES_PREFIX, sink_node_id, COLON, edge_id>>)

(***************************************************************************)
(* Ids, labels and property values the operations are called with.         *)
(* An id is the string of a fresh UUID: fixed length, no colon.  Here it   *)
(* is one character, a digit.                                              *)
(***************************************************************************)
IdOf(i) == <<48 + i>>
NodeIdPool == {IdOf(i) : i \in 1..MaxNodes}
EdgeIdPool == {IdOf(MaxNodes + j) : j \in 1..MaxEdges}
\* an id that is never generated ("nonexistent")
NoSuchId == <<120>>
AllIds == NodeIdPool \cup EdgeIdPool \cup {NoSuchId}

PERSON == <<112>>     \* "person"
THING == <<116>>      \* "thing"
KNOWS == <<107>>      \* "knows"
LIKES == <<108>>      \* "likes"
NodeLabels == {PERSON, THING}
EdgeLabels == {KNOWS, LIKES}

\* protocol::Value, a tagged union; the payload is kept as a byte string
VString(s) == [tag |-> "String", v |-> s]
VInteger(i) == [tag |-> "Integer", v |-> <<i>>]
VBoolean(b) == [tag |-> "Boolean", v |-> <<IF b THEN 1 ELSE 0>>]
VNull == [tag |-> "Null", v |-> <<>>]

NAME == <<110>>       \* "name"
AGE == <<97>>         \* "age"
\* props!(), props!{ "name" => "George" } and props!{ "age" => 22 }
NoProps == <<>>
NameProps == << <<NAME, VString(<<71>>)>> >>
AgeProps == << <<AGE, VInteger(22)>> >>
NodePropInputs == {NoProps, NameProps}
EdgePropInputs == {AgeProps}

EmptyMap == [k \in {} |-> VNull]
MapPut(m, k, v) == [x \in (DOMAIN m) \cup {k} |-> IF x = k THEN v ELSE m[x]]

\* HashMap::from_iter: a later pair overwrites an earlier one of the same key
RECURSIVE FromIter(_)
FromIter(pairs) ==
    IF pairs = <<>> THEN EmptyMap
    ELSE LET n == Len(pairs)
         IN  MapPut(FromIter(SubSeq(pairs, 1, n - 1)), pairs[n][1], pairs[n][2])

\* the orders in which a HashMap of these keys may be iterated
IterOrders(S) ==
    {s \in [1..Cardinality(S) -> S] : {s[i] : i \in DOMAIN s} = S}

(***************************************************************************)
(* Records and their binary encoding (serde derive + bincode): fields in   *)
(* declaration order, a string as its length and its bytes, a map as its   *)
(* entry count and its entries, an enum as its variant index and payload.  *)
(* A fixed-width integer is one cell.                                      *)
(***************************************************************************)
Node(id, label, properties) ==
    [id |-> id, label |-> label, properties |-> properties]
Edge(id, label, from_node, to_node, properties) ==
    [id |-> id, label |-> label, from_node |-> from_node,
     to_node |-> to_node, properties |-> properties]

VariantIndex(tag) ==
    CASE tag = "String" -> 0
      [] tag = "Float" -> 1
      [] tag = "Integer" -> 2
      [] tag = "Boolean" -> 3
      [] tag = "Array" -> 4
      [] tag = "Null" -> 5

SerString(s) == <<Len(s)>> \o s
SerValue(v) ==
    <<VariantIndex(v.tag)>> \o
        (IF v.tag = "String" THEN SerString(v.v) ELSE v.v)
SerMap(m, order) ==
    <<Len(order)>> \o
        Concat([i \in 1..Len(order) |->
                   SerString(order[i]) \o SerValue(m[order[i]])])

\* (mutant) the label is written before the id
serialize_node_label_first(node, order) ==
    Concat(<<SerString(node.label), SerString(node.id),
             SerMap(node.properties, order)>>)

\* serialize(&node); order is the iteration order of the property map
serialize_node(node, order) ==
    Concat(<<SerString(node.id), SerString(node.label),
             SerMap(node.properties, order)>>)
serialize_edge(edge, order) ==
    Concat(<<SerString(edge.id), SerString(edge.label),
             SerString(edge.from_node), SerString(edge.to_node),
             SerMap(edge.properties, order)>>)

\* Decoding fails (Err) when the input ends before the value does or names
\* no variant; a decoder returns [ok, val, next], next the position after.
DeString(b, pos) ==
    IF pos <= Len(b) /\ pos + b[pos] <= Len(b)
    THEN [ok |-> TRUE, val |-> SubSeq(b, pos + 1, pos + b[pos]),
          next |-> pos + 1 + b[pos]]
    ELSE [ok |-> FALSE, val |-> <<>>, next |-> pos]
DeValue(b, pos) ==
    IF pos > Len(b) THEN [ok |-> FALSE, val |-> VNull, next |-> pos]
    ELSE LET idx == b[pos]
         IN  CASE idx = 0 ->
                    LET s == DeString(b, pos + 1)
                    IN  [ok |-> s.ok, val |-> VString(s.val), next |-> s.next]
               [] idx = 2 /\ pos + 1 <= Len(b) ->
                    [ok |-> TRUE,
                     val |-> [tag |-> "Integer", v |-> <<b[pos + 1]>>],
                     next |-> pos + 2]
               [] idx = 3 /\ pos + 1 <= Len(b) ->
                    [ok |-> TRUE,
                     val |-> [tag |-> "Boolean", v |-> <<b[pos + 1]>>],
                     next |-> pos + 2]
               [] idx = 5 -> [ok |-> TRUE, val |-> VNull, next |-> pos + 1]
               [] OTHER -> [ok |-> FALSE, val |-> VNull, next |-> pos]
DeMap(b, pos) ==
    LET RECURSIVE entries(_, _, _)
        entries(k, p, m) ==
            IF k = 0 THEN [ok |-> TRUE, val |-> m, next |-> p]
            ELSE LET key == DeString(b, p)
                     v == DeValue(b, key.next)
                 IN  IF key.ok /\ v.ok
                     THEN entries(k - 1, v.next, MapPut(m, key.val, v.val))
                     ELSE [ok |-> FALSE, val |-> m, next |-> p]
    IN  IF pos <= Len(b) THEN entries(b[pos], pos + 1, EmptyMap)
        ELSE [ok |-> FALSE, val |-> EmptyMap, next |-> pos]

\* deserialize::<Node>(&data): [ok, val]
deserialize_node(b) ==
    LET id == DeString(b, 1)
        label == DeString(b, id.next)
        properties == DeMap(b, label.next)
    IN  [ok |-> id.ok /\ label.ok /\ properties.ok,
         val |-> Node(id.val, label.val, properties.val)]
\* deserialize::<Edge>(&data): [ok, val]
deserialize_edge(b) ==
    LET id == DeString(b, 1)
        label == DeString(b, id.next)
        from_node == DeString(b, label.next)
        to_node == DeString(b, from_node.next)
        properties == DeMap(b, to_node.next)
    IN  [ok |-> id.ok /\ label.ok /\ from_node.ok /\ to_node.ok /\ properties.ok,
         val |-> Edge(id.val, label.val, from_node.val, to_node.val,
                      properties.val)]

(***************************************************************************)
(* The key-value store: one function from keys to values per column        *)
(* family, atomic write batches, point reads and ordered iteration.        *)
(***************************************************************************)
EmptyCF == [k \in {} |-> <<>>]
EmptyDB == [cf \in ColumnFamilies |-> EmptyCF]

\* WriteBatch::put_cf / WriteBatch::delete_cf
BPut(cf, key, val) == [op |-> "put", cf |-> cf, key |-> key, val |-> val]
BDelete(cf, key) == [op |-> "delete", cf |-> cf, key |-> key, val |-> <<>>]

ApplyOp(d, w) ==
    LET f == d[w.cf]
        g == IF w.op = "put"
             THEN [k \in (DOMAIN f) \cup {w.key} |->
                      IF k = w.key THEN w.val ELSE f[k]]
             ELSE [k \in (DOMAIN f) \ {w.key} |-> f[k]]
    IN  [d EXCEPT ![w.cf] = g]

\* DB::write(batch): every operation of the batch, in order, in one step
RECURSIVE Write(_, _)
Write(d, batch) ==
    IF batch = <<>> THEN d
    ELSE Write(ApplyOp(d, Head(batch)), Tail(batch))

\* DB::get_cf / DB::get_pinned_cf: Some(data) or None
GetCf(d, cf, key) ==
    IF key \in DOMAIN d[cf]
    THEN [some |-> TRUE, data |-> d[cf][key]]
    ELSE [some |-> FALSE, data |-> <<>>]

RECURSIVE SortKeys(_)
SortKeys(S) ==
    IF S = {} THEN <<>>
    ELSE LET m == CHOOSE k \in S : \A j \in S \ {k} : LexLess(k, j)
         IN  <<m>> \o SortKeys(S \ {m})

\* DB::iterator_cf_opt(cf, opts, IteratorMode::From(start, Forward)): the keys
\* of the family that are not below start, ascending.  No prefix extractor is
\* configured, so the iterator runs to the end of the family.
IteratorFrom(d, cf, start) ==
    SortKeys({k \in DOMAIN d[cf] : ~LexLess(k, start)})

(***************************************************************************)
(* Results of the storage methods.                                         *)
(***************************************************************************)
Ok(v) == [status |-> "ok", val |-> v]
Err(msg) == [status |-> "err", val |-> msg]
\* a failed unwrap(): the calling thread panics
Panic == [status |-> "panic", val |-> "unwrap"]
NOT_FOUND == "Item not found!"
\* Ok(deserialize(&data).unwrap())
OkUnwrap(de) == IF de.ok THEN Ok(de.val) ELSE Panic

(***************************************************************************)
(* impl StorageMethods for HelixGraphStorage: the reads, as functions of   *)
(* the store contents d.                                                   *)
(***************************************************************************)
\* (mutant) an edge record of that id counts as well
check_exists_node_or_edge(d, id) ==
    Ok(GetCf(d, CF_NODES, Concat(<<NODE_PREFIX, id>>)).some
       \/ GetCf(d, CF_EDGES, Concat(<<EDGE_PREFIX, id>>)).some)

check_exists(d, id) ==
    Ok(GetCf(d, CF_NODES, Concat(<<NODE_PREFIX, id>>)).some)

get_temp_node(d, id) ==
    LET g == GetCf(d, CF_NODES, Concat(<<NODE_PREFIX, id>>))
    IN  IF g.some THEN OkUnwrap(deserialize_node(g.data)) ELSE Err(NOT_FOUND)

get_temp_edge(d, id) ==
    LET g == GetCf(d, CF_EDGES, Concat(<<EDGE_PREFIX, id>>))
    IN  IF g.some THEN OkUnwrap(deserialize_edge(g.data)) ELSE Err(NOT_FOUND)

get_node(d, id) ==
    LET g == GetCf(d, CF_NODES, Concat(<<NODE_PREFIX, id>>))
    IN  IF g.some THEN OkUnwrap(deserialize_node(g.data)) ELSE Err(NOT_FOUND)

get_edge(d, id) ==
    LET g == GetCf(d, CF_EDGES, Concat(<<EDGE_PREFIX, id>>))
    IN  IF g.some THEN OkUnwrap(deserialize_edge(g.data)) ELSE Err(NOT_FOUND)

\* the bytes of key after the prefix
Suffix(key, prefix) == SubSeq(key, Len(prefix) + 1, Len(key))

\* (mutant) the label of the edge is not compared
get_out_edges_any_label(d, node_id, edge_label) ==
    LET out_prefix == out_edge_key(node_id, <<>>)
        iter == IteratorFrom(d, CF_EDGES, out_prefix)
        RECURSIVE loop(_, _)
        loop(i, edges) ==
            IF i > Len(iter) THEN Ok(edges)
            ELSE IF ~StartsWith(iter[i], out_prefix) THEN Ok(edges)
            ELSE LET edge_id == Suffix(iter[i], out_prefix)
                     r == get_edge(d, edge_id)
                 IN  IF r.status # "ok" THEN Panic
                     ELSE loop(i + 1, Append(edges, r.val))
    IN  loop(1, <<>>)

get_out_edges(d, node_id, edge_label) ==
    LET out_prefix == out_edge_key(node_id, <<>>)
        iter == IteratorFrom(d, CF_EDGES, out_prefix)
        RECURSIVE loop(_, _)
        loop(i, edges) ==
            IF i > Len(iter) THEN Ok(edges)
            ELSE IF ~StartsWith(iter[i], out_prefix) THEN Ok(edges)
            ELSE LET edge_id == Suffix(iter[i], out_prefix)
                     r == get_edge(d, edge_id)
                 IN  IF r.status # "ok" THEN Panic
                     ELSE IF r.val.label = edge_label
                          THEN loop(i + 1, Append(edges, r.val))
                          ELSE loop(i + 1, edges)
    IN  loop(1, <<>>)

\* (mutant) the scan runs over the out-adjacency entries of the node
get_in_edges_scans_out(d, node_id, edge_label) ==
    LET in_prefix == out_edge_key(node_id, <<>>)
        iter == IteratorFrom(d, CF_EDGES, in_prefix)
        RECURSIVE loop(_, _)
        loop(i, edges) ==
            IF i > Len(iter) THEN Ok(edges)
            ELSE IF ~StartsWith(iter[i], in_prefix) THEN Ok(edges)
            ELSE LET edge_id == Suffix(iter[i], in_prefix)
                     r == get_edge(d, edge_id)
                 IN  IF r.status # "ok" THEN Panic
                     ELSE IF r.val.label = edge_label
                          THEN loop(i + 1, Append(edges, r.val))
                          ELSE loop(i + 1, edges)
    IN  loop(1, <<>>)

get_in_edges(d, node_id, edge_label) ==
    LET in_prefix == in_edge_key(node_id, <<>>)
        iter == IteratorFrom(d, CF_EDGES, in_prefix)
        RECURSIVE loop(_, _)
        loop(i, edges) ==
            IF i > Len(iter) THEN Ok(edges)
            ELSE IF ~StartsWith(iter[i], in_prefix) THEN Ok(edges)
            ELSE LET edge_id == Suffix(iter[i], in_prefix)
                     r == get_edge(d, edge_id)
                 IN  IF r.status # "ok" THEN Panic
                     ELSE IF r.val.label = edge_label
                          THEN loop(i + 1, Append(edges, r.val))
                          ELSE loop(i + 1, edges)
    IN  loop(1, <<>>)

get_out_nodes(d, node_id, edge_label) ==
    LET out_prefix == out_edge_key(node_id, <<>>)
        iter == IteratorFrom(d, CF_EDGES, out_prefix)
        RECURSIVE loop(_, _)
        loop(i, nodes) ==
            IF i > Len(iter) THEN Ok(nodes)
            ELSE IF ~StartsWith(iter[i], out_prefix) THEN Ok(nodes)
            ELSE LET r == get_temp_edge(d, Suffix(iter[i], out_prefix))
                 IN  IF r.status # "ok" THEN r
                     ELSE IF r.val.label = edge_label
                          THEN LET n == get_node(d, r.val.to_node)
                               IN  IF n.status = "ok"
                                   THEN loop(i + 1, Append(nodes, n.val))
                                   ELSE loop(i + 1, nodes)
                          ELSE loop(i + 1, nodes)
    IN  loop(1, <<>>)

get_in_nodes(d, node_id, edge_label) ==
    LET in_prefix == in_edge_key(node_id, <<>>)
        iter == IteratorFrom(d, CF_EDGES, in_prefix)
        RECURSIVE loop(_, _)
        loop(i, nodes) ==
            IF i > Len(iter) THEN Ok(nodes)
            ELSE IF ~StartsWith(iter[i], in_prefix) THEN Ok(nodes)
            ELSE LET r == get_temp_edge(d, Suffix(iter[i], in_prefix))
                 IN  IF r.status # "ok" THEN r
                     ELSE IF r.val.label = edge_label
                          THEN LET n == get_node(d, r.val.from_node)
                               IN  IF n.status = "ok"
                                   THEN loop(i + 1, Append(nodes, n.val))
                                   ELSE loop(i + 1, nodes)
                          ELSE loop(i + 1, nodes)
    IN  loop(1, <<>>)

get_all_nodes(d) ==
    LET node_prefix == node_key(<<>>)
        iter == IteratorFrom(d, CF_NODES, node_prefix)
        RECURSIVE loop(_, _)
        loop(i, nodes) ==
            IF i > Len(iter) THEN Ok(nodes)
            ELSE IF ~StartsWith(iter[i], node_prefix) THEN Ok(nodes)
            ELSE LET de == deserialize_node(d[CF_NODES][iter[i]])
                 IN  IF de.ok THEN loop(i + 1, Append(nodes, de.val))
                     ELSE Panic
    IN  loop(1, <<>>)

\* (mutant) the scan does not stop at the end of the prefix
get_all_edges_no_break(d) ==
    LET edge_prefix == edge_key(<<>>)
        iter == IteratorFrom(d, CF_EDGES, edge_prefix)
        RECURSIVE loop(_, _)
        loop(i, edges) ==
            IF i > Len(iter) THEN Ok(edges)
            ELSE LET de == deserialize_edge(d[CF_EDGES][iter[i]])
                 IN  IF de.ok THEN loop(i + 1, Append(edges, de.val))
                     ELSE Panic
    IN  loop(1, <<>>)

get_all_edges(d) ==
    LET edge_prefix == edge_key(<<>>)
        iter == IteratorFrom(d, CF_EDGES, edge_prefix)
        RECURSIVE loop(_, _)
        loop(i, edges) ==
            IF i > Len(iter) THEN Ok(edges)
            ELSE IF ~StartsWith(iter[i], edge_prefix) THEN Ok(edges)
            ELSE LET de == deserialize_edge(d[CF_EDGES][iter[i]])
                 IN  IF de.ok THEN loop(i + 1, Append(edges, de.val))
                     ELSE Panic
    IN  loop(1, <<>>)

(***************************************************************************)
(* The writes.  Each returns the result and the store after the call.      *)
(***************************************************************************)
Outcome(status, d) == [status |-> status, db |-> d]

\* create_node with the generated id and the encoding order of the map
create_node(d, label, properties, id, order) ==
    LET node == Node(id, label, FromIter(properties))
        new_batch ==
            << BPut(CF_NODES, node_key(node.id), serialize_node(node, order)),
               BPut(CF_NODES, node_label_key(label, node.id), <<>>) >>
    IN  [status |-> "ok", db |-> Write(d, new_batch), val |-> node]

\* (mutant) the endpoints are not looked up
create_edge_unchecked(d, label, from_node, to_node, properties, id, order) ==
    LET edge == Edge(id, label, from_node, to_node, FromIter(properties))
        batch ==
            << BPut(CF_EDGES, edge_key(edge.id), serialize_edge(edge, order)),
               BPut(CF_EDGES, edge_label_key(label, edge.id), <<>>),
               BPut(CF_EDGES, out_edge_key(from_node, edge.id), <<>>),
               BPut(CF_EDGES, in_edge_key(to_node, edge.id), <<>>) >>
    IN  [status |-> "ok", db |-> Write(d, batch), val |-> edge]

create_edge(d, label, from_node, to_node, properties, id, order) ==
    IF get_node(d, from_node).status # "ok" \/ get_node(d, to_node).status # "ok"
    THEN [status |-> "err", db |-> d,
          val |-> Edge(<<>>, <<>>, <<>>, <<>>, EmptyMap)]
    ELSE LET edge == Edge(id, label, from_node, to_node, FromIter(properties))
             batch ==
                 << BPut(CF_EDGES, edge_key(edge.id), serialize_edge(edge, order)),
                    BPut(CF_EDGES, edge_label_key(label, edge.id), <<>>),
                    BPut(CF_EDGES, out_edge_key(from_node, edge.id), <<>>),
                    BPut(CF_EDGES, in_edge_key(to_node, edge.id), <<>>) >>
         IN  [status |-> "ok", db |-> Write(d, batch), val |-> edge]

\* (mutant) the in-adjacency entry is left behind
drop_edge_keeps_in_entry(d, edge_id) ==
    LET edge_data == GetCf(d, CF_EDGES, edge_key(edge_id))
    IN  IF ~edge_data.some THEN Outcome("panic", d)
        ELSE LET de == deserialize_edge(edge_data.data)
                 edge == de.val
                 batch ==
                     << BDelete(CF_EDGES, out_edge_key(edge.from_node, edge_id)),
                        BDelete(CF_EDGES, edge_key(edge_id)) >>
             IN  IF ~de.ok THEN Outcome("panic", d)
                 ELSE Outcome("ok", Write(d, batch))

\* (mutant) the adjacency keys are built with the endpoints exchanged
drop_edge_swapped_endpoints(d, edge_id) ==
    LET edge_data == GetCf(d, CF_EDGES, edge_key(edge_id))
    IN  IF ~edge_data.some THEN Outcome("panic", d)
        ELSE LET de == deserialize_edge(edge_data.data)
                 edge == de.val
                 batch ==
                     << BDelete(CF_EDGES, out_edge_key(edge.to_node, edge_id)),
                        BDelete(CF_EDGES, in_edge_key(edge.from_node, edge_id)),
                        BDelete(CF_EDGES, edge_key(edge_id)) >>
             IN  IF ~de.ok THEN Outcome("panic", d)
                 ELSE Outcome("ok", Write(d, batch))

\* (mutant) the out-adjacency entry is left behind
drop_edge_keeps_out_entry(d, edge_id) ==
    LET edge_data == GetCf(d, CF_EDGES, edge_key(edge_id))
    IN  IF ~edge_data.some THEN Outcome("panic", d)
        ELSE LET de == deserialize_edge(edge_data.data)
                 edge == de.val
                 batch ==
                     << BDelete(CF_EDGES, in_edge_key(edge.to_node, edge_id)),
                        BDelete(CF_EDGES, edge_key(edge_id)) >>
             IN  IF ~de.ok THEN Outcome("panic", d)
                 ELSE Outcome("ok", Write(d, batch))

drop_edge(d, edge_id) ==
    LET edge_data == GetCf(d, CF_EDGES, edge_key(edge_id))
    IN  IF ~edge_data.some THEN Outcome("panic", d)
        ELSE LET de == deserialize_edge(edge_data.data)
                 edge == de.val
                 batch ==
                     << BDelete(CF_EDGES, out_edge_key(edge.from_node, edge_id)),
                        BDelete(CF_EDGES, in_edge_key(edge.to_node, edge_id)),
                        BDelete(CF_EDGES, edge_key(edge_id)) >>
             IN  IF ~de.ok THEN Outcome("panic", d)
                 ELSE Outcome("ok", Write(d, batch))

\* drop_node, first scan: the iterator over the out-adjacency prefix of id
drop_node_out_iter(d, id) == IteratorFrom(d, CF_NODES, out_edge_key(id, <<>>))
\* drop_node, second scan: the iterator over the in-adjacency prefix of id
drop_node_in_iter(d, id) == IteratorFrom(d, CF_EDGES, in_edge_key(id, <<>>))
\* (mutant) every key that starts with the node prefix is deleted
drop_node_delete_prefix(d, id) ==
    LET keys == IteratorFrom(d, CF_NODES, node_key(<<>>))
    IN  Write(d, [i \in DOMAIN keys |-> BDelete(CF_NODES, keys[i])])

\* drop_node, last write: delete the node record
drop_node_delete(d, id) == Write(d, << BDelete(CF_NODES, node_key(id)) >>)

\* drop_node(id) from the position (at, it) up to and including its next
\* write: at is the loop it is in, it the keys its iterator has yet to return.
\* The result is the store after that write and the position reached
\* ("returned" with the status the call returns, or the loop it is still in).
\* (mutant) the node record is deleted first, the edges after it
drop_node_record_first(d, id, at, it) ==
    IF at = "out_edges"
    THEN [status |-> "running", db |-> drop_node_delete(d, id),
          at |-> "in_edges", it |-> drop_node_in_iter(d, id)]
    ELSE IF it = <<>> \/ ~StartsWith(Head(it), in_edge_key(id, <<>>))
         THEN [status |-> "ok", db |-> d, at |-> "returned", it |-> <<>>]
         ELSE LET r == drop_edge(d, Suffix(Head(it), in_edge_key(id, <<>>)))
              IN  IF r.status = "ok"
                  THEN [status |-> "running", db |-> r.db,
                        at |-> at, it |-> Tail(it)]
                  ELSE [status |-> r.status, db |-> d,
                        at |-> "returned", it |-> <<>>]

RECURSIVE drop_node(_, _, _, _)
drop_node(d, id, at, it) ==
    LET prefix == IF at = "out_edges" THEN out_edge_key(id, <<>>)
                  ELSE in_edge_key(id, <<>>)
    IN  IF it = <<>> \/ ~StartsWith(Head(it), prefix)
        THEN IF at = "out_edges"
             THEN drop_node(d, id, "in_edges", drop_node_in_iter(d, id))
             ELSE [status |-> "ok", db |-> drop_node_delete(d, id),
                   at |-> "returned", it |-> <<>>]
        ELSE LET r == drop_edge(d, Suffix(Head(it), prefix))
             IN  IF r.status = "ok"
                 THEN [status |-> "running", db |-> r.db,
                       at |-> at, it |-> Tail(it)]
                 ELSE [status |-> r.status, db |-> d,
                       at |-> "returned", it |-> <<>>]

(***************************************************************************)
(* graph_core/traversal.rs: the cells of a frontier and the kind guards.   *)
(***************************************************************************)
\* enum TraversalValue
SingleNode(node) == [kind |-> "SingleNode", items |-> <<node>>]
SingleEdge(edge) == [kind |-> "SingleEdge", items |-> <<edge>>]
SingleValue(value) == [kind |-> "SingleValue", items |-> <<value>>]
NodeArray(nodes) == [kind |-> "NodeArray", items |-> nodes]
EdgeArray(edges) == [kind |-> "EdgeArray", items |-> edges]
ValueArray(values) == [kind |-> "ValueArray", items |-> values]

\* TraversalBuilder::new(start_nodes): the frontier it starts with
TraversalBuilder_new(start_nodes) == <<NodeArray(start_nodes)>>

\* (mutant) a single-node cell is not accepted
check_is_valid_node_traversal_lists_only(step) ==
    IF step = <<>> THEN Panic
    ELSE IF step[1].kind \in {"NodeArray"} THEN Ok(<<>>)
         ELSE Err("TraversalError")

\* self.current_step[0] of an empty vector panics (index out of bounds)
check_is_valid_node_traversal(step) ==
    IF step = <<>> THEN Panic
    ELSE IF step[1].kind \in {"NodeArray", "SingleNode"} THEN Ok(<<>>)
         ELSE Err("TraversalError")

check_is_valid_edge_traversal(step) ==
    IF step = <<>> THEN Panic
    ELSE IF step[1].kind \in {"EdgeArray", "SingleEdge"} THEN Ok(<<>>)
         ELSE Err("TraversalError")

\* what a step leaves behind: "ok" with the new frontier and store, or
\* "panic" (an unwrap() failed) with both as they were
Stepped(status, step, d) == [status |-> status, step |-> step, db |-> d]

\* impl SourceTraversalSteps for TraversalBuilder.
\* (mutant) the nodes read are taken out of the store
TraversalBuilder_v_takes(step, d) ==
    LET nodes == get_all_nodes(d)
    IN  IF nodes.status # "ok" THEN Stepped("panic", step, d)
        ELSE Stepped("ok", <<NodeArray(nodes.val)>>,
                     Write(d, [i \in DOMAIN nodes.val |->
                                  BDelete(CF_NODES, node_key(nodes.val[i].id))]))

TraversalBuilder_v(step, d) ==
    LET nodes == get_all_nodes(d)
    IN  IF nodes.status # "ok" THEN Stepped("panic", step, d)
        ELSE Stepped("ok", <<NodeArray(nodes.val)>>, d)

\* (mutant) the new cell is pushed behind the cells already held
TraversalBuilder_e_appends(step, d) ==
    LET edges == get_all_edges(d)
    IN  IF edges.status # "ok" THEN Stepped("panic", step, d)
        ELSE Stepped("ok", Append(step, EdgeArray(edges.val)), d)

TraversalBuilder_e(step, d) ==
    LET edges == get_all_edges(d)
    IN  IF edges.status # "ok" THEN Stepped("panic", step, d)
        ELSE Stepped("ok", <<EdgeArray(edges.val)>>, d)

\* (mutant) the new cell is pushed behind the cells already held
TraversalBuilder_add_v_appends(step, d, node_label, id) ==
    LET node == create_node(d, node_label, NoProps, id, <<>>)
    IN  IF node.status # "ok" THEN Stepped("panic", step, d)
        ELSE Stepped("ok", Append(step, SingleNode(node.val)), node.db)

TraversalBuilder_add_v(step, d, node_label, id) ==
    LET node == create_node(d, node_label, NoProps, id, <<>>)
    IN  IF node.status # "ok" THEN Stepped("panic", step, d)
        ELSE Stepped("ok", <<SingleNode(node.val)>>, node.db)

TraversalBuilder_add_e(step, d, edge_label, from_id, to_id, id) ==
    LET edge == create_edge(d, edge_label, from_id, to_id, NoProps, id, <<>>)
    IN  IF edge.status # "ok" THEN Stepped("panic", step, d)
        ELSE Stepped("ok", <<SingleEdge(edge.val)>>, edge.db)

\* for node in nodes { new_current.push(Cell(Read(&node.id).unwrap())) }
PushCells(nodes, Read(_), Cell(_)) ==
    [i \in 1..Len(nodes) |-> LET r == Read(nodes[i].id)
                             IN  IF r.status = "ok" THEN Cell(r.val) ELSE Panic]

\* the body shared by the four chained steps: the guard's result unwrapped,
\* then the cells built from the nodes of current_step[0] when that cell is
\* a NodeArray; with any other first cell the frontier stays as it is
ChainedStep(step, d, Read(_), Cell(_)) ==
    IF check_is_valid_node_traversal(step).status # "ok"
    THEN Stepped("panic", step, d)
    ELSE IF step[1].kind = "NodeArray"
         THEN LET new_current == PushCells(step[1].items, Read, Cell)
              IN  IF \E i \in DOMAIN new_current : new_current[i] = Panic
                  THEN Stepped("panic", step, d)
                  ELSE Stepped("ok", new_current, d)
         ELSE Stepped("ok", step, d)

\* impl TraversalSteps for TraversalBuilder
TraversalBuilder_out(step, d, edge_label) ==
    LET Read(id) == get_out_nodes(d, id, edge_label)
    IN  ChainedStep(step, d, Read, NodeArray)

TraversalBuilder_out_e(step, d, edge_label) ==
    LET Read(id) == get_out_edges(d, id, edge_label)
    IN  ChainedStep(step, d, Read, EdgeArray)

TraversalBuilder_in_(step, d, edge_label) ==
    LET Read(id) == get_in_nodes(d, id, edge_label)
    IN  ChainedStep(step, d, Read, NodeArray)

TraversalBuilder_in_e(step, d, edge_label) ==
    LET Read(id) == get_in_edges(d, id, edge_label)
    IN  ChainedStep(step, d, Read, EdgeArray)

(***************************************************************************)
(* helixc/src/generator/query_gen.rs: TraversalGenerator<CurrentState>.    *)
(* The phantom state decides which step methods exist; "NotGenerated"      *)
(* stands for a step sequence no generator value can hold.                 *)
(***************************************************************************)
NoState == "NoState"
VertexState == "VertexState"
EdgeState == "EdgeState"
NotGenerated == "NotGenerated"

\* the state of the generator returned by method op called on a generator
\* in state s
TraversalGenerator_step(s, op) ==
    IF s = NoState /\ op = "v" THEN VertexState
    ELSE IF s = NoState /\ op = "e" THEN EdgeState
    ELSE IF s = VertexState /\ op \in {"out", "in_"} THEN VertexState
    ELSE IF s = VertexState /\ op \in {"out_e", "in_e"} THEN EdgeState
    ELSE NotGenerated

(***************************************************************************)
(* State.                                                                  *)
(***************************************************************************)
VARIABLES
    db,        \* the store: column family -> (key -> value)
    used,      \* the ids generated so far (ids are never generated twice)
    pc,        \* "idle", or the loop the drop_node call in progress is in
    target,    \* the id the drop_node call in progress was called with
    iter,      \* the keys its open iterator has not yet returned
    last,      \* the last storage call: operation, result, id
    created,   \* id -> the record create_node returned, until drop_node(id)
    current_step,  \* TraversalBuilder.current_step: the frontier, a list of cells
    guard,     \* the last kind guard called and what it returned
    trav,      \* the last step called on the builder: method, label, outcome
    gen,       \* the state of the TraversalGenerator that holds the steps
               \* called on the builder so far
    start_nodes,   \* the argument the builder was made with
    path,      \* the labels of the steps called so far while all were out
    nsteps,    \* how many steps were called on the builder
    phase,     \* the gateway: "setup" until it is booted, then "serving"
    routes,    \* HelixRouter.routes of the router the workers share
    chan,      \* the connections sent to the pool and not yet received
    conns,     \* connection -> its request, open handles, bytes written
    workers,   \* worker -> where its loop is and what it holds
    mutex,     \* the worker that holds the engine's lock, or 0
    reply,     \* the Response a caller has built and sends
    stream,    \* the bytes written to the stream a Response was sent to
    source_text,   \* the compiler's input: its top-level items, in order
    parsed,    \* what HelixParser::parse_source did with it
    inbound,   \* a stream a request is read from: what each read returns
    received,  \* what Request::from_stream made of it
    generator, \* a TraversalGenerator: its name, its steps, its state
    code       \* what generate_code returned for it

builderVars == <<trav, gen, start_nodes, path, nsteps>>
sendVars == <<reply, stream>>
compilerVars == <<source_text, parsed>>
readerVars == <<inbound, received>>
codegenVars == <<generator, code>>
gwVars == <<phase, routes, chan, conns, workers, mutex, sendVars, compilerVars,
           readerVars, codegenVars>>
vars == <<db, used, pc, target, iter, last, created, current_step, guard,
          builderVars, gwVars>>
storeVars == <<db, used, pc, target, iter, last, created>>
travVars == <<current_step, guard, builderVars, gwVars>>

\* the id is recorded for the calls that found or made their entity
Call(op, status, id) ==
    [op |-> op, status |-> status, id |-> IF status = "ok" THEN id ELSE <<>>]

\* ids the callers pass where a node id is expected
NodeIdInputs == NodeIdPool \cup {NoSuchId}

\* ids the callers pass where an edge id is expected
EdgeIdInputs == EdgeIdPool \cup {NoSuchId}

\* Uuid::new_v4(): an id not generated before.  Ids are opaque and no call
\* depends on the order in which they were generated, so the generator hands
\* them out in ascending order.
FreshIds(pool) ==
    {id \in pool \ used : \A o \in pool \ used : o = id \/ LexLess(id, o)}

\* a builder just made with TraversalBuilder::new(nodes), no step called yet
BuilderNew(nodes) ==
    /\ trav = [op |-> "new", label |-> <<>>, status |-> "ok"]
    /\ gen = IF nodes = <<>> THEN NoState ELSE NotGenerated
    /\ start_nodes = nodes
    /\ path = [only_out |-> TRUE, labels |-> <<>>]
    /\ nsteps = 0

\* no stream is being read, from_stream has not been called
NoStream == [chunks |-> <<>>, open |-> FALSE]
NotRead == [status |-> "none"]
\* no generator has been made
NoGenerator == [function_identifier |-> <<>>, steps |-> <<>>, state |-> "none"]

\* parse_source has not been called
NotParsed == [status |-> "none", node_schemas |-> <<>>, edge_schemas |-> <<>>,
              queries |-> <<>>]

\* no response is being sent, no source is being compiled
ToolsIdle ==
    /\ reply = <<>>
    /\ stream = <<>>
    /\ source_text = <<>>
    /\ parsed = NotParsed
    /\ inbound = NoStream
    /\ received = NotRead
    /\ generator = NoGenerator
    /\ code = <<>>

\* no gateway: nothing listens, no worker runs
GatewayDown ==
    /\ phase = "down"
    /\ routes = EmptyCF
    /\ chan = <<>>
    /\ conns = EmptyCF
    /\ workers = EmptyCF
    /\ mutex = 0
    /\ ToolsIdle

Init ==
    /\ db = EmptyDB
    /\ used = {}
    /\ pc = "idle"
    /\ target = <<>>
    /\ iter = <<>>
    /\ last = Call("new", "ok", <<>>)
    /\ created = EmptyCF
    /\ current_step = TraversalBuilder_new(<<>>)
    /\ guard = [fn |-> "none", status |-> "none"]
    /\ BuilderNew(<<>>)
    /\ GatewayDown

(***************************************************************************)
(* The storage calls.  create_node, create_edge and drop_edge write one    *)
(* batch and are one step; drop_node is a step per write.                  *)
(***************************************************************************)
CreateNode ==
    /\ pc = "idle"
    /\ \E label \in NodeLabels, properties \in NodePropInputs,
          id \in FreshIds(NodeIdPool) :
         \E order \in IterOrders(DOMAIN FromIter(properties)) :
            LET r == create_node(db, label, properties, id, order)
            IN  /\ db' = r.db
                /\ used' = used \cup {id}
                /\ last' = Call("create_node", r.status, id)
                /\ created' = MapPut(created, id, r.val)
    /\ UNCHANGED <<pc, target, iter>>

\* create_edge(label, from_node, to_node, properties).  Once every edge id of
\* the model is generated only the calls that fail before generating one
\* are taken.
CreateEdgeCall(label, from_node, to_node, properties) ==
    \E id \in (IF FreshIds(EdgeIdPool) = {} THEN {NoSuchId}
                ELSE FreshIds(EdgeIdPool)) :
      \E order \in IterOrders(DOMAIN FromIter(properties)) :
        LET r == create_edge(db, label, from_node, to_node, properties,
                             id, order)
        IN  /\ id # NoSuchId \/ r.status # "ok"
            /\ db' = r.db
            /\ used' = IF r.status = "ok" THEN used \cup {id} ELSE used
            /\ last' = Call("create_edge", r.status, id)

CreateEdge ==
    /\ pc = "idle"
    /\ \E label \in EdgeLabels, from_node \in NodeIdInputs,
          to_node \in NodeIdInputs, properties \in EdgePropInputs :
         CreateEdgeCall(label, from_node, to_node, properties)
    /\ UNCHANGED <<pc, target, iter, created>>

DropEdgeCall(edge_id) ==
    LET r == drop_edge(db, edge_id)
    IN  /\ db' = r.db
        /\ last' = Call("drop_edge", r.status, edge_id)

DropEdge ==
    /\ pc = "idle"
    /\ \E edge_id \in EdgeIdInputs : DropEdgeCall(edge_id)
    /\ UNCHANGED <<used, pc, target, iter, created>>

\* the effect of a step of drop_node(id) on the state
DropNodeTo(r, id) ==
    /\ db' = r.db
    /\ pc' = IF r.at = "returned" THEN "idle" ELSE r.at
    /\ target' = IF r.at = "returned" THEN <<>> ELSE id
    /\ iter' = r.it
    /\ last' = Call("drop_node", r.status, id)
    /\ created' = [k \in (DOMAIN created) \ {id} |-> created[k]]
    /\ UNCHANGED used

\* drop_node is called and runs to its first write
DropNodeBegin ==
    /\ pc = "idle"
    /\ \E id \in NodeIdInputs :
         DropNodeTo(drop_node(db, id, "out_edges", drop_node_out_iter(db, id)),
                    id)

\* the drop_node call in progress runs to its next write
DropNodeStep ==
    /\ pc # "idle"
    /\ DropNodeTo(drop_node(db, target, pc, iter), target)

\* the process dies inside drop_node; the store is reopened as it is
Crash ==
    /\ pc # "idle"
    /\ pc' = "idle"
    /\ iter' = <<>>
    /\ target' = <<>>
    /\ last' = Call("drop_node", "crash", target)
    /\ UNCHANGED <<db, used, created>>

\* the storage engine called directly, one call at a time, with crashes
Next ==
    \/ CreateNode /\ UNCHANGED travVars
    \/ CreateEdge /\ UNCHANGED travVars
    \/ DropEdge /\ UNCHANGED travVars
    \/ DropNodeBegin /\ UNCHANGED travVars
    \/ DropNodeStep /\ UNCHANGED travVars
    \/ Crash /\ UNCHANGED travVars

Spec == Init /\ [][Next]_vars

\* the same, every call running to completion
NextSerial ==
    \/ CreateNode /\ UNCHANGED travVars
    \/ CreateEdge /\ UNCHANGED travVars
    \/ DropEdge /\ UNCHANGED travVars
    \/ DropNodeBegin /\ UNCHANGED travVars
    \/ DropNodeStep /\ UNCHANGED travVars

SpecSerial == Init /\ [][NextSerial]_vars

(***************************************************************************)
(* The kind guards applied to the frontiers a builder may hold.            *)
(***************************************************************************)
SampleNode == Node(IdOf(1), PERSON, EmptyMap)
SampleEdge == Edge(IdOf(2), KNOWS, IdOf(1), IdOf(1), EmptyMap)
SampleCells ==
    { SingleNode(SampleNode), SingleEdge(SampleEdge), SingleValue(VInteger(22)),
      NodeArray(<<>>), NodeArray(<<SampleNode>>),
      EdgeArray(<<>>), EdgeArray(<<SampleEdge>>),
      ValueArray(<<VInteger(22)>>) }
\* frontiers of at most MaxCells cells
MaxCells == 2
GuardFrontiers ==
    UNION {[1..n -> SampleCells] : n \in 0..MaxCells}

InitGuard ==
    /\ db = EmptyDB
    /\ used = {}
    /\ pc = "idle"
    /\ target = <<>>
    /\ iter = <<>>
    /\ last = Call("new", "ok", <<>>)
    /\ created = EmptyCF
    /\ current_step \in GuardFrontiers
    /\ guard = [fn |-> "none", status |-> "none"]
    /\ BuilderNew(<<>>)
    /\ GatewayDown

CheckNodeTraversal ==
    /\ guard' = [fn |-> "check_is_valid_node_traversal",
                 status |-> check_is_valid_node_traversal(current_step).status]
    /\ UNCHANGED <<storeVars, current_step, builderVars, gwVars>>

CheckEdgeTraversal ==
    /\ guard' = [fn |-> "check_is_valid_edge_traversal",
                 status |-> check_is_valid_edge_traversal(current_step).status]
    /\ UNCHANGED <<storeVars, current_step, builderVars, gwVars>>

NextGuard ==
    \/ CheckNodeTraversal
    \/ CheckEdgeTraversal

SpecGuard == InitGuard /\ [][NextGuard]_vars

(***************************************************************************)
(* A traversal builder driven step by step against the store it builds     *)
(* with add_v and add_e.  A builder is used for at most MaxSteps steps;    *)
(* a step that panics ends it.                                             *)
(***************************************************************************)
MaxSteps == 3

\* the argument of TraversalBuilder::new: no node, or one stored node
StartInputs(d) ==
    LET nodes == get_all_nodes(d).val
    IN  {<<>>} \cup {<<nodes[i]>> : i \in DOMAIN nodes}

TravNew ==
    /\ \E nodes \in StartInputs(db) :
         /\ current_step' = TraversalBuilder_new(nodes)
         /\ trav' = [op |-> "new", label |-> <<>>, status |-> "ok"]
         /\ gen' = IF nodes = <<>> THEN NoState ELSE NotGenerated
         /\ start_nodes' = nodes
    /\ path' = [only_out |-> TRUE, labels |-> <<>>]
    /\ nsteps' = 0
    /\ UNCHANGED <<storeVars, guard, gwVars>>

\* the builder can take a step
BuilderLive == trav.status # "panic" /\ nsteps < MaxSteps

\* the effect on the state of step op(label) with outcome r
StepTo(op, label, r) ==
    /\ current_step' = r.step
    /\ db' = r.db
    /\ trav' = [op |-> op, label |-> label, status |-> r.status]
    /\ gen' = TraversalGenerator_step(gen, op)
    /\ path' = IF op = "out" /\ path.only_out
               THEN [only_out |-> TRUE, labels |-> Append(path.labels, label)]
               ELSE [only_out |-> FALSE, labels |-> <<>>]
    /\ nsteps' = nsteps + 1
    /\ UNCHANGED <<pc, target, iter, last, created, start_nodes, guard, gwVars>>

TravV ==
    /\ BuilderLive
    /\ StepTo("v", <<>>, TraversalBuilder_v(current_step, db))
    /\ UNCHANGED used

TravE ==
    /\ BuilderLive
    /\ StepTo("e", <<>>, TraversalBuilder_e(current_step, db))
    /\ UNCHANGED used

TravAddV ==
    /\ BuilderLive
    /\ \E node_label \in NodeLabels, id \in FreshIds(NodeIdPool) :
         /\ StepTo("add_v", node_label,
                   TraversalBuilder_add_v(current_step, db, node_label, id))
         /\ used' = used \cup {id}

\* once every edge id of the model is generated only the calls that fail
\* before generating one are taken
TravAddE ==
    /\ BuilderLive
    /\ \E edge_label \in EdgeLabels, from_id \in NodeIdInputs,
          to_id \in NodeIdInputs :
         \E id \in (IF FreshIds(EdgeIdPool) = {} THEN {NoSuchId}
                     ELSE FreshIds(EdgeIdPool)) :
            LET r == TraversalBuilder_add_e(current_step, db, edge_label,
                                            from_id, to_id, id)
            IN  /\ id # NoSuchId \/ r.status # "ok"
                /\ StepTo("add_e", edge_label, r)
                /\ used' = IF r.status = "ok" THEN used \cup {id} ELSE used

TravOut ==
    /\ BuilderLive
    /\ \E edge_label \in EdgeLabels :
         StepTo("out", edge_label,
                TraversalBuilder_out(current_step, db, edge_label))
    /\ UNCHANGED used

TravOutE ==
    /\ BuilderLive
    /\ \E edge_label \in EdgeLabels :
         StepTo("out_e", edge_label,
                TraversalBuilder_out_e(current_step, db, edge_label))
    /\ UNCHANGED used

TravIn ==
    /\ BuilderLive
    /\ \E edge_label \in EdgeLabels :
         StepTo("in_", edge_label,
                TraversalBuilder_in_(current_step, db, edge_label))
    /\ UNCHANGED used

TravInE ==
    /\ BuilderLive
    /\ \E edge_label \in EdgeLabels :
         StepTo("in_e", edge_label,
                TraversalBuilder_in_e(current_step, db, edge_label))
    /\ UNCHANGED used

NextTrav ==
    \/ TravNew
    \/ TravV
    \/ TravE
    \/ TravAddV
    \/ TravAddE
    \/ TravOut
    \/ TravOutE
    \/ TravIn
    \/ TravInE

SpecTrav == Init /\ [][NextTrav]_vars

(***************************************************************************)
(* What the claims speak of.                                               *)
(***************************************************************************)
Range(seq) == {seq[i] : i \in DOMAIN seq}
EndsWith(key, suffix) ==
    /\ Len(suffix) <= Len(key)
    /\ SubSeq(key, Len(key) - Len(suffix) + 1, Len(key)) = suffix

\* every key stored, whatever the column family
AllKeys(d) == UNION {DOMAIN d[cf] : cf \in ColumnFamilies}
\* the ids of the node records and of the edge records stored
NodeRecordIds(d) ==
    {Suffix(k, NODE_PREFIX) : k \in {x \in DOMAIN d[CF_NODES] : StartsWith(x, NODE_PREFIX)}}
EdgeRecordIds(d) ==
    {Suffix(k, EDGE_PREFIX) : k \in {x \in DOMAIN d[CF_EDGES] : StartsWith(x, EDGE_PREFIX)}}
StoredNodes(d) == {deserialize_node(d[CF_NODES][node_key(id)]).val : id \in NodeRecordIds(d)}
StoredEdges(d) == {deserialize_edge(d[CF_EDGES][edge_key(id)]).val : id \in EdgeRecordIds(d)}
\* the adjacency entries <prefix><some node>:<e> stored for edge id e
AdjKeys(d, prefix, e) ==
    {k \in AllKeys(d) : StartsWith(k, prefix) /\ EndsWith(k, COLON \o e)}
\* labels the callers pass to the adjacency reads
LabelInputs == EdgeLabels \cup {PERSON}
\* no edge of the list has n as an endpoint
NoEdgeAt(edges, n) ==
    \A i \in DOMAIN edges : edges[i].from_node # n /\ edges[i].to_node # n

(***************************************************************************)
(* C1: after drop_node(n) has returned Ok, get_node(n) fails with          *)
(* NotFound and every edge that had n as its from- or to-endpoint is gone: *)
(* no edge record names n (edge records never change and ids are never     *)
(* reused, so these are the edges that had n as an endpoint), and no       *)
(* get_out_edges / get_in_edges result of any node holds such an edge.     *)
(***************************************************************************)
C1_DropNodeRemovesIncidentEdges ==
    (pc = "idle" /\ last.op = "drop_node" /\ last.status = "ok") =>
        LET n == last.id
        IN  /\ get_node(db, n).status = "err"
            /\ \A e \in StoredEdges(db) : e.from_node # n /\ e.to_node # n
            /\ \A m \in NodeIdInputs, L \in EdgeLabels :
                 LET o == get_out_edges(db, m, L)
                     i == get_in_edges(db, m, L)
                 IN  /\ o.status = "ok" /\ NoEdgeAt(o.val, n)
                     /\ i.status = "ok" /\ NoEdgeAt(i.val, n)

(***************************************************************************)
(* C2: after any sequence of completed create_node, create_edge,           *)
(* drop_edge and drop_node calls, the from_node and the to_node of every   *)
(* stored edge record name nodes whose records exist.                      *)
(***************************************************************************)
C2_EdgeEndpointsExist ==
    pc = "idle" =>
        \A e \in StoredEdges(db) :
            /\ get_node(db, e.from_node).status = "ok"
            /\ get_node(db, e.to_node).status = "ok"

(***************************************************************************)
(* C3: in every state, between the writes of a drop_node and after a       *)
(* crash included, the edge record e:<e>, the out-adjacency entry          *)
(* o:<from>:<e> and the in-adjacency entry i:<to>:<e> of an edge id e      *)
(* exist together or not at all.                                           *)
(***************************************************************************)
C3_EdgeEntriesTogether ==
    \A e \in EdgeIdPool :
        LET rec == GetCf(db, CF_EDGES, edge_key(e))
        IN  IF rec.some
            THEN LET edge == deserialize_edge(rec.data).val
                 IN  /\ AdjKeys(db, OUT_EDGES_PREFIX, e)
                            = {out_edge_key(edge.from_node, e)}
                     /\ AdjKeys(db, IN_EDGES_PREFIX, e)
                            = {in_edge_key(edge.to_node, e)}
            ELSE /\ AdjKeys(db, OUT_EDGES_PREFIX, e) = {}
                 /\ AdjKeys(db, IN_EDGES_PREFIX, e) = {}

\* a drop_node between two of its writes: one edge is dropped, one is pending
C3_Witness ==
    /\ pc = "in_edges"
    /\ \E e \in EdgeIdPool \cap used : ~GetCf(db, CF_EDGES, edge_key(e)).some
    /\ \E e \in StoredEdges(db) : e.to_node = target

(***************************************************************************)
(* C4: for every node id n and label L, get_out_edges(n, L) returns        *)
(* exactly the stored edges with from_node = n and label = L, each once.   *)
(***************************************************************************)
C4_OutEdgesExact ==
    \A n \in NodeIdInputs, L \in LabelInputs :
        LET r == get_out_edges(db, n, L)
        IN  /\ r.status = "ok"
            /\ Range(r.val) =
                   {e \in StoredEdges(db) : e.from_node = n /\ e.label = L}
            /\ Len(r.val) = Cardinality(Range(r.val))

\* a node with an outgoing edge of each label and an incoming edge
C4_Witness ==
    \E n \in NodeIdPool :
        /\ \E e \in StoredEdges(db) : e.from_node = n /\ e.label = KNOWS
        /\ \E e \in StoredEdges(db) : e.from_node = n /\ e.label = LIKES
        /\ Len(get_out_edges(db, n, KNOWS).val) = 1

(***************************************************************************)
(* C5: for every node create_node returned and drop_node was not called    *)
(* on since, whatever was created and dropped meanwhile, get_node succeeds *)
(* and returns the id, label and properties create_node returned.          *)
(***************************************************************************)
C5_NodeRoundTrip ==
    \A n \in DOMAIN created :
        LET r == get_node(db, n)
        IN  /\ r.status = "ok"
            /\ r.val.id = created[n].id
            /\ r.val.label = created[n].label
            /\ r.val.properties = created[n].properties

\* a node with properties that has outlived the drop of another entity
C5_Witness ==
    /\ last.op \in {"drop_node", "drop_edge"}
    /\ last.status = "ok"
    /\ last.id \in used
    /\ \E n \in DOMAIN created : DOMAIN created[n].properties # {}

(***************************************************************************)
(* C6: create_edge succeeds only if the from node and the to node both     *)
(* exist when it is called; if either is missing it returns an error and   *)
(* the store is left as it was.                                            *)
(***************************************************************************)
C6_CreateEdgeChecksEndpoints ==
    [][(pc = "idle" /\ last'.op = "create_edge") =>
         LET exists == {n \in NodeIdInputs : get_node(db, n).status = "ok"}
         IN  \A label \in EdgeLabels, from_node \in NodeIdInputs,
                to_node \in NodeIdInputs, properties \in EdgePropInputs :
               LET both == from_node \in exists /\ to_node \in exists
               IN  \/ /\ last'.status = "ok" => both
                      /\ ~both => (last'.status = "err" /\ db' = db)
                   \/ ~CreateEdgeCall(label, from_node, to_node, properties)]_vars

\* a create_edge call has failed while a node exists
C6_Witness ==
    /\ last.op = "create_edge"
    /\ last.status = "err"
    /\ NodeRecordIds(db) # {}

(***************************************************************************)
(* C7: after drop_edge(e.id) has succeeded on an existing edge e,          *)
(* get_edge(e.id) fails with NotFound and e is in none of                  *)
(* get_out_edges(e.from_node, e.label), get_in_edges(e.to_node, e.label)   *)
(* and get_all_edges().                                                    *)
(***************************************************************************)
C7_DropEdgeRemovesEdge ==
    [][\A edge_id \in EdgeIdInputs :
         (pc = "idle" /\ DropEdgeCall(edge_id)
            /\ get_edge(db, edge_id).status = "ok") =>
            LET e == get_edge(db, edge_id).val
                o == get_out_edges(db', e.from_node, e.label)
                i == get_in_edges(db', e.to_node, e.label)
                a == get_all_edges(db')
            IN  /\ last'.status = "ok"
                /\ get_edge(db', edge_id).status = "err"
                /\ o.status = "ok" /\ e \notin Range(o.val)
                /\ i.status = "ok" /\ e \notin Range(i.val)
                /\ a.status = "ok" /\ e \notin Range(a.val)]_vars

\* drop_edge has succeeded and another edge is still stored
C7_Witness ==
    /\ last.op = "drop_edge"
    /\ last.status = "ok"
    /\ StoredEdges(db) # {}

(***************************************************************************)
(* C8: get_all_nodes() returns exactly the node records stored, each once, *)
(* among them every node created and not dropped, and get_all_edges()      *)
(* exactly the edge records stored, each once; no index entry is returned. *)
(***************************************************************************)
C8_GetAllExact ==
    LET ns == get_all_nodes(db)
        es == get_all_edges(db)
    IN  /\ ns.status = "ok"
        /\ Range(ns.val) = StoredNodes(db)
        /\ Len(ns.val) = Cardinality(NodeRecordIds(db))
        /\ \A n \in DOMAIN created : created[n] \in Range(ns.val)
        /\ es.status = "ok"
        /\ Range(es.val) = StoredEdges(db)
        /\ Len(es.val) = Cardinality(EdgeRecordIds(db))

\* two nodes and two edges stored beside their index entries
C8_Witness ==
    /\ Cardinality(NodeRecordIds(db)) = 2
    /\ Cardinality(EdgeRecordIds(db)) = 2
    /\ Len(get_all_edges(db).val) = 2

(***************************************************************************)
(* C9: a node-label entry nl:<L>:<id> exists iff node <id> is stored with  *)
(* label L, and an edge-label entry el:<L>:<id> exists iff edge <id> is    *)
(* stored with label L.                                                    *)
(***************************************************************************)
C9_LabelIndexExact ==
    /\ \A id \in NodeIdPool, L \in NodeLabels :
         node_label_key(L, id) \in AllKeys(db)
            <=> (get_node(db, id).status = "ok" /\ get_node(db, id).val.label = L)
    /\ \A id \in EdgeIdPool, L \in EdgeLabels :
         edge_label_key(L, id) \in AllKeys(db)
            <=> (get_edge(db, id).status = "ok" /\ get_edge(db, id).val.label = L)

(***************************************************************************)
(* C10: on a frontier with a first cell, the node kind guard accepts iff   *)
(* that cell is a node-list or single-node cell and the edge kind guard    *)
(* iff it is an edge-list or single-edge cell; every other kind is         *)
(* rejected with an error.                                                 *)
(***************************************************************************)
C10_KindGuards ==
    current_step # <<>> =>
        LET kind == current_step[1].kind
        IN  /\ guard.fn = "check_is_valid_node_traversal" =>
                 /\ kind \in {"NodeArray", "SingleNode"} => guard.status = "ok"
                 /\ kind \in {"SingleEdge", "EdgeArray", "SingleValue", "ValueArray"}
                        => guard.status = "err"
            /\ guard.fn = "check_is_valid_edge_traversal" =>
                 /\ kind \in {"EdgeArray", "SingleEdge"} => guard.status = "ok"
                 /\ kind \in {"SingleNode", "NodeArray", "SingleValue", "ValueArray"}
                        => guard.status = "err"

\* the node guard has rejected a frontier that starts with a value cell
C10_Witness ==
    /\ guard.fn = "check_is_valid_node_traversal"
    /\ guard.status = "err"
    /\ Len(current_step) = 2
    /\ current_step[1].kind = "ValueArray"

(***************************************************************************)
(* Vocabulary of the claims about traversals.                              *)
(***************************************************************************)
ChainedOps == {"out", "in_", "out_e", "in_e"}
SourceOps == {"v", "e", "add_v", "add_e"}
NodeKinds == {"NodeArray", "SingleNode"}

\* the transition is a step called on the live builder
IsStep == nsteps' = nsteps + 1

\* the nodes or edges of all cells of a frontier, in order
RECURSIVE FrontierItems(_)
FrontierItems(step) ==
    IF step = <<>> THEN <<>>
    ELSE Head(step).items \o FrontierItems(Tail(step))

\* the storage read a chained step is defined by
ReadOf(op, d, id, edge_label) ==
    CASE op = "out" -> get_out_nodes(d, id, edge_label)
      [] op = "in_" -> get_in_nodes(d, id, edge_label)
      [] op = "out_e" -> get_out_edges(d, id, edge_label)
      [] op = "in_e" -> get_in_edges(d, id, edge_label)

\* one cell per node of the frontier, the cell of node v being the read of v
CellPerNode(op, d, step, edge_label) ==
    LET nodes == FrontierItems(step)
    IN  [i \in 1..Len(nodes) |->
            [kind |-> IF op \in {"out", "in_"} THEN "NodeArray" ELSE "EdgeArray",
             items |-> ReadOf(op, d, nodes[i].id, edge_label).val]]

\* the ids reached from the ids S by a path of edges labelled labels in order
RECURSIVE ReachFrom(_, _, _)
ReachFrom(d, S, labels) ==
    IF labels = <<>> THEN S
    ELSE ReachFrom(d,
                   {x.to_node : x \in {y \in StoredEdges(d) :
                        y.from_node \in S /\ y.label = Head(labels)}},
                   Tail(labels))

(***************************************************************************)
(* C11: a chained step (out, in_, out_e, in_e) called on a frontier whose  *)
(* first cell is of an edge kind or a value kind hands a TraversalError to *)
(* its caller: the thread is not aborted, the store is not accessed and    *)
(* the frontier stays as it was.                                           *)
(***************************************************************************)
C11_ChainedStepSurfacesError ==
    [][(IsStep /\ trav'.op \in ChainedOps /\ current_step # <<>>
          /\ current_step[1].kind \notin NodeKinds) =>
         (trav'.status = "err" /\ db' = db /\ current_step' = current_step)]_vars

(***************************************************************************)
(* C12: after out(L) on a frontier whose first cell is of a node kind the  *)
(* new frontier has one node-list cell per node of the previous frontier,  *)
(* the nodes of all its cells counted, in order, the cell of node v being  *)
(* get_out_nodes(v, L); likewise in_ with get_in_nodes, and out_e and in_e *)
(* with edge-list cells of get_out_edges and get_in_edges.                 *)
(***************************************************************************)
C12_OneCellPerNode ==
    [][(IsStep /\ trav'.op \in ChainedOps /\ current_step # <<>>
          /\ current_step[1].kind \in NodeKinds) =>
         /\ trav'.status = "ok"
         /\ current_step' = CellPerNode(trav'.op, db, current_step, trav'.label)]_vars

(***************************************************************************)
(* C13: a builder made with [s] on which out(L1), ..., out(Lk), k >= 1,    *)
(* were called holds a frontier whose nodes, over all cells, are exactly   *)
(* the nodes reached from s by a path of k edges labelled L1..Lk in order. *)
(***************************************************************************)
C13_OutChainReaches ==
    (start_nodes # <<>> /\ path.only_out /\ path.labels # <<>>) =>
        /\ trav.status = "ok"
        /\ Range(FrontierItems(current_step)) =
              {get_node(db, id).val :
                 id \in ReachFrom(db, {start_nodes[1].id}, path.labels)}

(***************************************************************************)
(* C14: a source step replaces whatever frontier the builder held: after V *)
(* the frontier is one node-list cell equal to get_all_nodes(), after E    *)
(* one edge-list cell equal to get_all_edges(), after add_v one            *)
(* single-node cell holding the node just created and stored, after add_e  *)
(* one single-edge cell holding the edge just created and stored.          *)
(***************************************************************************)
C14_SourceStepReplacesFrontier ==
    [][(IsStep /\ trav'.op \in SourceOps) =>
         /\ trav'.op # "add_e" => trav'.status = "ok"
         /\ trav'.status = "ok" =>
              CASE trav'.op = "v" ->
                     /\ db' = db
                     /\ current_step' = <<NodeArray(get_all_nodes(db).val)>>
                [] trav'.op = "e" ->
                     /\ db' = db
                     /\ current_step' = <<EdgeArray(get_all_edges(db).val)>>
                [] trav'.op = "add_v" ->
                     /\ Len(current_step') = 1
                     /\ current_step'[1].kind = "SingleNode"
                     /\ LET node == current_step'[1].items[1]
                        IN  /\ node.id \notin NodeRecordIds(db)
                            /\ node.label = trav'.label
                            /\ get_node(db', node.id) = Ok(node)
                [] trav'.op = "add_e" ->
                     /\ Len(current_step') = 1
                     /\ current_step'[1].kind = "SingleEdge"
                     /\ LET edge == current_step'[1].items[1]
                        IN  /\ edge.id \notin EdgeRecordIds(db)
                            /\ edge.label = trav'.label
                            /\ get_edge(db', edge.id) = Ok(edge)]_vars

\* add_v has replaced a frontier left by two earlier steps of the builder
C14_Witness ==
    /\ trav.op = "add_v"
    /\ trav.status = "ok"
    /\ nsteps = MaxSteps
    /\ Len(current_step) = 1
    /\ current_step[1].kind = "SingleNode"
    /\ current_step[1].items[1].id = IdOf(2)

(***************************************************************************)
(* C15: a step sequence a TraversalGenerator can hold (v or e from         *)
(* NoState, out and in_ from VertexState, out_e and in_e from VertexState  *)
(* to EdgeState, nothing from EdgeState), run by a builder made with no    *)
(* node against any store, fails no kind guard and does not abort.         *)
(***************************************************************************)
C15_GeneratedProgramRuns ==
    gen \in {NoState, VertexState, EdgeState} => trav.status = "ok"

(***************************************************************************)
(* helix-gateway and helix-container: the router, the registry of          *)
(* handlers, the pool of workers and the handlers they run.  Methods,      *)
(* paths and handler names are strings of character codes.                 *)
(***************************************************************************)
\* number of workers of the pool (the pool size the gateway is made with)
MaxWorkers == 2
\* number of connections the listener accepts
MaxConns == 3

GET == <<71, 69, 84>>                   \* "GET"
GET_LOWER == <<103, 101, 116>>          \* "get"
POST_LOWER == <<112, 111, 115, 116>>    \* "post"
POST == <<80, 79, 83, 84>>              \* "POST"
SLASH == <<47>>                         \* "/"
TEST_PATH == <<47, 116, 101, 115, 116>> \* "/test"
FAIL_PATH == <<47, 102, 97, 105, 108>>  \* "/fail"
\* "test_function2"
TEST_FUNCTION2 ==
    <<116, 101, 115, 116, 95, 102, 117, 110, 99, 116, 105, 111, 110, 50>>

\* str::to_uppercase / to_ascii_uppercase on ASCII text
to_uppercase(str) ==
    [i \in 1..Len(str) |->
        IF str[i] \in 97..122 THEN str[i] - 32 ELSE str[i]]

\* Handler::new(name, func); func names the function the pointer points at
Handler(name, func) == [name |-> name, func |-> func]
\* inventory::iter::<HandlerSubmission>: the functions marked #[handler]
Registry == {Handler(TEST_FUNCTION2, "test_function2")}

None == [some |-> FALSE, val |-> EmptyCF]
Some(val) == [some |-> TRUE, val |-> val]

\* Response::new()
CONTENT_TYPE == <<67, 111, 110, 116, 101, 110, 116, 45, 84, 121, 112, 101>>
TEXT_PLAIN == <<116, 101, 120, 116, 47, 112, 108, 97, 105, 110>>
Response_new ==
    [status |-> 200, headers |-> (CONTENT_TYPE :> TEXT_PLAIN), body |-> <<>>]

\* Request::from_stream, the request line: its first two words, "GET" and
\* "/" standing in for a missing one
Request_from_stream(first_line) ==
    [method |-> IF Len(first_line) >= 1 THEN first_line[1] ELSE GET,
     path |-> IF Len(first_line) >= 2 THEN first_line[2] ELSE SLASH]

HelixRouter_new(routes_arg) ==
    IF routes_arg.some THEN routes_arg.val ELSE EmptyCF

HelixRouter_add_route(rts, method, route_path, handler) ==
    MapPut(rts, <<to_uppercase(method), route_path>>, handler)

\* (mutant) a request that matches no route is answered with a fresh body
HelixRouter_handle_clears_body(rts, request, response) ==
    LET route_key == <<request.method, request.path>>
    IN  IF route_key \in DOMAIN rts
        THEN [found |-> TRUE, handler |-> rts[route_key],
              response |-> response, result |-> "none"]
        ELSE [found |-> FALSE, handler |-> "none",
              response |-> [response EXCEPT !.status = 404, !.body = <<>>],
              result |-> "ok"]

\* HelixRouter::handle up to the call of the handler: the handler found, or
\* status 404 and Ok(())
HelixRouter_handle(rts, request, response) ==
    LET route_key == <<request.method, request.path>>
    IN  IF route_key \in DOMAIN rts
        THEN [found |-> TRUE, handler |-> rts[route_key],
              response |-> response, result |-> "none"]
        ELSE [found |-> FALSE, handler |-> "none",
              response |-> [response EXCEPT !.status = 404],
              result |-> "ok"]

\* main: the route table built from the registry
main_routes(registry) ==
    LET key(h) == <<to_uppercase(GET_LOWER), SLASH \o h.name>>
    IN  [k \in {key(h) : h \in registry} |->
            (CHOOSE h \in registry : key(h) = k).func]

\* a worker at the top of its loop
IdleWorker ==
    [pc |-> "recv", conn |-> 0, request |-> <<>>, response |-> <<>>,
     handler |-> "none", result |-> "none", traversal |-> <<>>]

\* ThreadPool::new(size, storage, router): size workers, each in its loop
ThreadPool_new(size) == [w \in 1..size |-> IdleWorker]

\* ConnectionHandler::new(address, storage, size, router)
ConnectionHandler_new(size, router) ==
    [routes |-> router, workers |-> ThreadPool_new(size)]

\* HelixGateway::new(address, graph, size): it has no parameter for routes
\* and makes the router itself
HelixGateway_new(size) == ConnectionHandler_new(size, HelixRouter_new(None))

\* (mutant) the lock is handed out while another worker holds it
Mutex_lock_shared(m, w) == [acquired |-> TRUE, mutex |-> w]

\* input.graph.lock(): the lock is acquired when no worker holds it
Mutex_lock(m, w) ==
    IF m = 0 THEN [acquired |-> TRUE, mutex |-> w]
    ELSE [acquired |-> FALSE, mutex |-> m]

\* create_test_graph(storage, size, edges_per_node) with size one: one
\* "person" node, and no edge since from_id = to_id
create_test_graph(d, id) == create_node(d, PERSON, NoProps, id, <<>>).db

\* HelixGraphEngine::result_to_utf8: the frontier written as JSON
result_to_utf8(traversal) == <<[json |-> traversal]>>

(***************************************************************************)
(* The gateway as a state machine.  A program first builds a router        *)
(* (add_route), then boots: main goes through HelixGateway::new, a program *)
(* with a router of its own gives it to ConnectionHandler::new.  The       *)
(* listener accepts connections and queues them; each worker runs the loop *)
(* of Worker::new.  conns[c].handles counts the open handles of the socket *)
(* (it is closed when none is left), conns[c].written is what was written  *)
(* to it.                                                                  *)
(***************************************************************************)
\* what the gateway leaves alone
gwFrame == <<pc, target, iter, last, created, current_step, guard, builderVars,
            sendVars, compilerVars, readerVars, codegenVars>>

\* the routes a program installs with add_route
RouteInputs ==
    { <<GET_LOWER, TEST_PATH, "test_route">>,
      <<GET, SLASH \o TEST_FUNCTION2, "test_function2">>,
      <<POST_LOWER, FAIL_PATH, "failing_handler">> }

\* the request lines that arrive
RequestInputs ==
    { <<GET, SLASH \o TEST_FUNCTION2>>, <<GET, TEST_PATH>>,
      <<POST, FAIL_PATH>>, <<>> }

InitGateway ==
    /\ db = EmptyDB
    /\ used = {}
    /\ pc = "idle"
    /\ target = <<>>
    /\ iter = <<>>
    /\ last = Call("new", "ok", <<>>)
    /\ created = EmptyCF
    /\ current_step = TraversalBuilder_new(<<>>)
    /\ guard = [fn |-> "none", status |-> "none"]
    /\ BuilderNew(<<>>)
    /\ phase = "setup"
    /\ routes = HelixRouter_new(None)
    /\ chan = <<>>
    /\ conns = EmptyCF
    /\ workers = EmptyCF
    /\ mutex = 0
    /\ ToolsIdle

\* router.add_route(method, path, handler)
AddRoute ==
    /\ phase = "setup"
    /\ \E r \in RouteInputs :
         /\ routes' = HelixRouter_add_route(routes, r[1], r[2], r[3])
         /\ routes' # routes
    /\ UNCHANGED <<db, used, gwFrame, phase, chan, conns, workers, mutex>>

\* main: the routes of the registry are collected and given to
\* HelixGateway::new, which has no parameter that takes them
BootMain ==
    /\ phase = "setup"
    /\ routes = HelixRouter_new(None)
    /\ LET main_table == Some(main_routes(Registry))
           gateway == HelixGateway_new(MaxWorkers)
       IN  /\ routes' = gateway.routes
           /\ workers' = gateway.workers
    /\ phase' = "main"
    /\ UNCHANGED <<db, used, gwFrame, chan, conns, mutex>>

\* ConnectionHandler::new(address, storage, size, router) with the router built
BootWith ==
    /\ phase = "setup"
    /\ LET handler == ConnectionHandler_new(MaxWorkers, routes)
       IN  /\ routes' = handler.routes
           /\ workers' = handler.workers
    /\ phase' = "serving"
    /\ UNCHANGED <<db, used, gwFrame, chan, conns, mutex>>

\* accept_conns: the socket is cloned into active_connections and sent to the
\* workers
Accept ==
    /\ phase \in {"main", "serving"}
    /\ Cardinality(DOMAIN conns) < MaxConns
    /\ \E first_line \in RequestInputs :
         LET c == Cardinality(DOMAIN conns) + 1
         IN  /\ conns' = MapPut(conns, c,
                    [first_line |-> first_line, handles |-> 2,
                     written |-> <<>>, handled |-> FALSE, result |-> "none"])
             /\ chan' = Append(chan, c)
    /\ UNCHANGED <<db, used, gwFrame, phase, routes, workers, mutex>>

\* rx.lock().unwrap().recv().unwrap()
\* (mutant) the connection received stays in the channel
WorkerRecv_peeks ==
    \E w \in DOMAIN workers :
        /\ workers[w].pc = "recv"
        /\ chan # <<>>
        /\ workers' = [workers EXCEPT ![w].pc = "parse", ![w].conn = Head(chan)]
        /\ chan' = chan
        /\ UNCHANGED <<db, used, gwFrame, phase, routes, conns, mutex>>

WorkerRecv ==
    \E w \in DOMAIN workers :
        /\ workers[w].pc = "recv"
        /\ chan # <<>>
        /\ workers' = [workers EXCEPT ![w].pc = "parse", ![w].conn = Head(chan)]
        /\ chan' = Tail(chan)
        /\ UNCHANGED <<db, used, gwFrame, phase, routes, conns, mutex>>

\* Request::from_stream(&mut conn).unwrap()
WorkerParse ==
    \E w \in DOMAIN workers :
        /\ workers[w].pc = "parse"
        /\ workers' = [workers EXCEPT
              ![w].pc = "handle",
              ![w].request = Request_from_stream(conns[workers[w].conn].first_line)]
        /\ UNCHANGED <<db, used, gwFrame, phase, routes, chan, conns, mutex>>

\* router.handle(graph_access, request, &mut Response::new()) up to the
\* call of the handler
WorkerHandle ==
    \E w \in DOMAIN workers :
        /\ workers[w].pc = "handle"
        /\ LET r == HelixRouter_handle(routes, workers[w].request, Response_new)
           IN  workers' = [workers EXCEPT
                  ![w].pc = IF r.found THEN r.handler ELSE "unwrap",
                  ![w].handler = r.handler,
                  ![w].response = r.response,
                  ![w].result = r.result]
        /\ UNCHANGED <<db, used, gwFrame, phase, routes, chan, conns, mutex>>

\* test_function2: let graph = &input.graph.lock().unwrap()
HandlerLock ==
    \E w \in DOMAIN workers :
        /\ workers[w].pc = "test_function2"
        /\ LET l == Mutex_lock(mutex, w)
           IN  /\ l.acquired
               /\ mutex' = l.mutex
        /\ workers' = [workers EXCEPT ![w].pc = "create_test_graph"]
        /\ UNCHANGED <<db, used, gwFrame, phase, routes, chan, conns>>

\* test_function2: create_test_graph(&graph.storage, ..); once the ids of
\* the model are used up the graph is left as it is
HandlerCreate ==
    \E w \in DOMAIN workers :
        /\ workers[w].pc = "create_test_graph"
        /\ IF FreshIds(NodeIdPool) = {} THEN UNCHANGED <<db, used>>
           ELSE \E id \in FreshIds(NodeIdPool) :
                    /\ db' = create_test_graph(db, id)
                    /\ used' = used \cup {id}
        /\ workers' = [workers EXCEPT
              ![w].pc = "v", ![w].traversal = TraversalBuilder_new(<<>>)]
        /\ UNCHANGED <<gwFrame, phase, routes, chan, conns, mutex>>

\* test_function2: traversal.v(&graph.storage)
HandlerV ==
    \E w \in DOMAIN workers :
        /\ workers[w].pc = "v"
        /\ LET r == TraversalBuilder_v(workers[w].traversal, db)
           IN  workers' = [workers EXCEPT
                  ![w].pc = IF r.status = "ok" THEN "out" ELSE "dead",
                  ![w].traversal = r.step]
        /\ UNCHANGED <<db, used, gwFrame, phase, routes, chan, conns, mutex>>

\* test_function2: traversal.out(&graph.storage, "knows"), the body is set
\* to the result, the lock is released at the return of Ok(())
HandlerOut ==
    \E w \in DOMAIN workers :
        /\ workers[w].pc = "out"
        /\ LET r == TraversalBuilder_out(workers[w].traversal, db, KNOWS)
           IN  workers' = [workers EXCEPT
                  ![w].pc = IF r.status = "ok" THEN "unwrap" ELSE "dead",
                  ![w].traversal = r.step,
                  ![w].response.body = result_to_utf8(r.step),
                  ![w].result = IF r.status = "ok" THEN "ok" ELSE "none"]
        /\ mutex' = 0
        /\ UNCHANGED <<db, used, gwFrame, phase, routes, chan, conns>>

\* the handler of test_router_integration: status 200, body "Success"
HandlerTestRoute ==
    \E w \in DOMAIN workers :
        /\ workers[w].pc = "test_route"
        /\ workers' = [workers EXCEPT
              ![w].pc = "unwrap",
              ![w].response.status = 200,
              ![w].response.body = <<83, 117, 99, 99, 101, 115, 115>>,
              ![w].result = "ok"]
        /\ UNCHANGED <<db, used, gwFrame, phase, routes, chan, conns, mutex>>

\* a handler that returns Err(RouterError)
HandlerFailing ==
    \E w \in DOMAIN workers :
        /\ workers[w].pc = "failing_handler"
        /\ workers' = [workers EXCEPT ![w].pc = "unwrap", ![w].result = "err"]
        /\ UNCHANGED <<db, used, gwFrame, phase, routes, chan, conns, mutex>>

\* .unwrap() of what handle returned and the end of the loop body: on Ok the
\* response and the worker's handle of the socket are dropped and the loop
\* goes on; on Err the thread panics
WorkerUnwrap ==
    \E w \in DOMAIN workers :
        /\ workers[w].pc = "unwrap"
        /\ workers' = [workers EXCEPT
              ![w] = IF workers[w].result = "ok" THEN IdleWorker
                     ELSE [IdleWorker EXCEPT !.pc = "dead"]]
        /\ conns' = [conns EXCEPT
              ![workers[w].conn].handles = @ - 1,
              ![workers[w].conn].handled = TRUE,
              ![workers[w].conn].result = workers[w].result]
        /\ UNCHANGED <<db, used, gwFrame, phase, routes, chan, mutex>>

NextGateway ==
    \/ AddRoute
    \/ BootMain
    \/ BootWith
    \/ Accept
    \/ WorkerRecv
    \/ WorkerParse
    \/ WorkerHandle
    \/ HandlerLock
    \/ HandlerCreate
    \/ HandlerV
    \/ HandlerOut
    \/ HandlerTestRoute
    \/ HandlerFailing
    \/ WorkerUnwrap

SpecGateway == InitGateway /\ [][NextGateway]_vars

(***************************************************************************)
(* Claims about the gateway.                                               *)
(***************************************************************************)
\* where a handler invocation is between taking the engine and its last
\* operation on it
EnginePcs == {"create_test_graph", "v", "out"}

\* C18: at any time at most one handler invocation is between its first and
\* its last engine operation, and it is the one holding the lock; so the
\* engine operations of two invocations never interleave.
C18_OneInvocationHoldsEngine ==
    \A w1 \in DOMAIN workers :
        workers[w1].pc \in EnginePcs =>
            /\ mutex = w1
            /\ \A w2 \in DOMAIN workers :
                   workers[w2].pc \in EnginePcs => w2 = w1

\* one invocation has created its graph and is inside the engine while
\* another worker waits for the lock
C18_Witness ==
    \E w1, w2 \in DOMAIN workers :
        /\ w1 # w2
        /\ workers[w1].pc \in {"v", "out"}
        /\ workers[w2].pc = "test_function2"
        /\ db # EmptyDB

\* the route key HelixRouter::handle looks up for the request of worker w
RouteKeyOf(w) == <<workers[w].request.method, workers[w].request.path>>

\* worker w leaves router.handle's lookup in this step
IsHandle(w) == workers[w].pc = "handle" /\ workers'[w].pc # "handle"

\* responses a caller may hand to HelixRouter::handle
ResponseInputs ==
    { Response_new,
      [status |-> 200,
       headers |-> (CONTENT_TYPE :> TEXT_PLAIN)
                      @@ (<<88, 45, 84, 101, 115, 116>> :> <<49>>),
       body |-> <<83, 117, 99, 99, 101, 115, 115>>] }

\* C16: every connection a worker has finished with (it is back at the top
\* of its loop) has had one serialized response written to it and has been
\* closed.
C16_EveryRequestAnswered ==
    \A c \in DOMAIN conns :
        conns[c].handled =>
            /\ Len(conns[c].written) = 1
            /\ conns[c].handles = 0

\* C17: when the handler has returned an error, the step that takes the
\* result writes a response of status 500 with an empty body to the
\* connection and leaves the worker at the top of its loop.
C17_HandlerErrorAnswered500 ==
    [][\A w \in DOMAIN workers :
          (/\ workers[w].pc = "unwrap"
           /\ workers[w].result = "err"
           /\ workers'[w].pc # "unwrap")
          => /\ workers'[w].pc = "recv"
             /\ Len(conns'[workers[w].conn].written) = 1
             /\ conns'[workers[w].conn].written[1].status = 500
             /\ Len(conns'[workers[w].conn].written[1].body) = 0]_vars

\* C19: handle on a request that matches no route sets the status to 404 and
\* returns Ok, calls no handler, leaves the lock and the store alone, and
\* leaves the body and the headers of the response as they were.
C19_NoRouteIs404 ==
    [][\A w \in DOMAIN workers :
          (IsHandle(w) /\ RouteKeyOf(w) \notin DOMAIN routes)
          => /\ workers'[w].response = [Response_new EXCEPT !.status = 404]
             /\ workers'[w].result = "ok"
             /\ workers'[w].handler = "none"
             /\ workers'[w].pc = "unwrap"
             /\ mutex' = mutex
             /\ db' = db
             /\ \A response \in ResponseInputs :
                   LET r == HelixRouter_handle(routes, workers[w].request,
                                               response)
                   IN  /\ ~r.found
                       /\ r.result = "ok"
                       /\ r.response.status = 404
                       /\ r.response.body = response.body
                       /\ r.response.headers = response.headers]_vars

\* a router that has routes has answered a request that matches none of them
C19_Witness ==
    \E w \in DOMAIN workers :
        /\ workers[w].pc = "unwrap"
        /\ workers[w].handler = "none"
        /\ workers[w].response.status = 404
        /\ routes # EmptyCF

\* C20: the gateway booted by main has the route (GET, "/" + name) for every
\* handler of the registry; a route installed by add_route is stored under
\* the upper-cased method; and a request that matches an installed route is
\* given to exactly the handler of that route.
C20_RegistryRoutesInstalled ==
    [][/\ phase' = "main" =>
            \A h \in Registry :
                /\ <<GET, SLASH \o h.name>> \in DOMAIN routes'
                /\ routes'[<<GET, SLASH \o h.name>>] = h.func
       /\ (phase = "setup" /\ phase' = "setup" /\ routes' # routes) =>
            \E r \in RouteInputs :
                /\ <<to_uppercase(r[1]), r[2]>> \in DOMAIN routes'
                /\ routes'[<<to_uppercase(r[1]), r[2]>>] = r[3]
                /\ <<to_uppercase(r[1]), r[2]>> \notin DOMAIN routes
       /\ \A w \in DOMAIN workers :
            (IsHandle(w) /\ RouteKeyOf(w) \in DOMAIN routes)
            => /\ workers'[w].handler = routes[RouteKeyOf(w)]
               /\ workers'[w].pc = routes[RouteKeyOf(w)]]_vars

(***************************************************************************)
(* Claims about the key layout, the point reads and drop_node's order.     *)
(***************************************************************************)
\* the keys of kind prefix that family cf holds
KeysOfKind(d, cf, prefix) == {k \in DOMAIN d[cf] : StartsWith(k, prefix)}

\* the index prefixes
IndexPrefixes ==
    {NODE_LABEL_PREFIX, EDGE_LABEL_PREFIX, OUT_EDGES_PREFIX, IN_EDGES_PREFIX}

\* C21: node records are only in the nodes family, edge records only in the
\* edges family and every index entry (nl:, el:, o:, i:) only in the indices
\* family; and the scans of drop_node find the adjacency entries where the
\* writes put them.
C21_KeysByFamily ==
    /\ \A cf \in ColumnFamilies :
         /\ KeysOfKind(db, cf, NODE_PREFIX) # {} => cf = CF_NODES
         /\ KeysOfKind(db, cf, EDGE_PREFIX) # {} => cf = CF_EDGES
         /\ \A prefix \in IndexPrefixes :
               KeysOfKind(db, cf, prefix) # {} => cf = CF_INDICES
    /\ \A n \in NodeIdPool :
         /\ {k \in AllKeys(db) : StartsWith(k, out_edge_key(n, <<>>))}
               \subseteq Range(drop_node_out_iter(db, n))
         /\ {k \in AllKeys(db) : StartsWith(k, in_edge_key(n, <<>>))}
               \subseteq Range(drop_node_in_iter(db, n))

\* C22: a storage operation called with an id that names no stored entity
\* returns an error and leaves the store as it was: get_node, get_edge,
\* drop_edge (never created or already dropped) and drop_node.
C22_MissingIdIsTypedFailure ==
    [][/\ \A id \in AllIds :
            /\ id \notin NodeRecordIds(db) => get_node(db, id).status = "err"
            /\ id \notin EdgeRecordIds(db) => get_edge(db, id).status = "err"
       /\ \A edge_id \in EdgeIdInputs :
            (pc = "idle" /\ last'.op = "drop_edge" /\ DropEdgeCall(edge_id)
                /\ edge_id \notin EdgeRecordIds(db))
            => (last'.status = "err" /\ db' = db)
       /\ \A id \in NodeIdInputs :
            (pc = "idle" /\ last'.op = "drop_node"
                /\ id \notin NodeRecordIds(db)
                /\ DropNodeTo(drop_node(db, id, "out_edges",
                                        drop_node_out_iter(db, id)), id))
            => (last'.status = "err" /\ db' = db)]_vars

C25_CheckExistsEdge ==
    \A e \in EdgeRecordIds(db) : check_exists(db, e) = Ok(TRUE)

(***************************************************************************)
(* Claims about the in-adjacency reads and the neighbour reads.            *)
(***************************************************************************)
\* the stored node records as a list, for a builder to start from
NodeOf(d, n) == get_node(d, n).val

\* C27: for every node id n and label L, get_in_edges(n, L) returns exactly
\* the stored edges with to_node = n and label = L, each once (so never an
\* edge that only leaves n); and a builder started at [n] holds exactly
\* those edges after in_e(L) and exactly their from-nodes after in_(L).
C27_InEdgesExact ==
    \A n \in NodeIdInputs, L \in LabelInputs :
        LET r == get_in_edges(db, n, L)
            incoming == {e \in StoredEdges(db) : e.to_node = n /\ e.label = L}
        IN  /\ r.status = "ok"
            /\ Range(r.val) = incoming
            /\ Len(r.val) = Cardinality(incoming)
            /\ n \in NodeRecordIds(db) =>
                 LET start == TraversalBuilder_new(<<NodeOf(db, n)>>)
                     in_e == TraversalBuilder_in_e(start, db, L)
                     in_ == TraversalBuilder_in_(start, db, L)
                 IN  /\ in_e.status = "ok"
                     /\ in_e.step = <<EdgeArray(r.val)>>
                     /\ in_.status = "ok"
                     /\ Len(in_.step) = 1
                     /\ in_.step[1].kind = "NodeArray"
                     /\ Range(in_.step[1].items) \subseteq StoredNodes(db)
                     /\ {m.id : m \in Range(in_.step[1].items)}
                           = {e.from_node : e \in incoming}
                                \cap NodeRecordIds(db)

\* p1 -knows-> p2 is the only edge into p2 while p2 has an edge of its own
\* going out
C27_Witness ==
    \E n \in NodeIdPool :
        /\ Len(get_in_edges(db, n, KNOWS).val) = 1
        /\ get_in_edges(db, n, KNOWS).val[1].from_node # n
        /\ \E e \in StoredEdges(db) : e.from_node = n /\ e.to_node # n
        /\ Len(get_in_nodes(db, n, KNOWS).val) = 1

\* C28: for every node n and label L, get_out_nodes(n, L) holds one node per
\* edge of get_out_edges(n, L), the record of its to_node, in the same
\* order, and get_in_nodes(n, L) one node per edge of get_in_edges(n, L),
\* the record of its from_node; the lists have the same length.
C28_NodesMatchEdges ==
    \A n \in NodeIdInputs, L \in LabelInputs :
        LET oe == get_out_edges(db, n, L)
            on == get_out_nodes(db, n, L)
            ie == get_in_edges(db, n, L)
            inn == get_in_nodes(db, n, L)
        IN  /\ oe.status = "ok" /\ on.status = "ok"
            /\ Len(on.val) = Len(oe.val)
            /\ \A i \in DOMAIN oe.val :
                  on.val[i] = NodeOf(db, oe.val[i].to_node)
            /\ ie.status = "ok" /\ inn.status = "ok"
            /\ Len(inn.val) = Len(ie.val)
            /\ \A i \in DOMAIN ie.val :
                  inn.val[i] = NodeOf(db, ie.val[i].from_node)

C29_SingleNodeAdvances ==
    [][(IsStep /\ trav'.op \in ChainedOps /\ current_step # <<>>
          /\ current_step[1].kind = "SingleNode") =>
         LET node == current_step[1].items[1]
             read == ReadOf(trav'.op, db, node.id, trav'.label)
         IN  /\ check_is_valid_node_traversal(current_step).status = "ok"
             /\ trav'.status = "ok"
             /\ current_step' # current_step
             /\ current_step' # <<>>
             /\ current_step'[1] =
                   [kind |-> IF trav'.op \in {"out", "in_"} THEN "NodeArray"
                             ELSE "EdgeArray",
                    items |-> read.val]]_vars

(***************************************************************************)
(* Response::send: the bytes a response is written as.                     *)
(***************************************************************************)
CRLF == <<13, 10>>                      \* "\r\n"
HTTP_1_1 == <<72, 84, 84, 80, 47, 49, 46, 49, 32>>      \* "HTTP/1.1 "
CONTENT_LENGTH ==                       \* "Content-Length: "
    <<67, 111, 110, 116, 101, 110, 116, 45, 76, 101, 110, 103, 116, 104, 58, 32>>
X_TEST == <<88, 45, 84, 101, 115, 116>> \* "X-Test"
JSON == <<106, 115, 111, 110>>          \* "json"
HELLO_WORLD == <<72, 101, 108, 108, 111, 32, 87, 111, 114, 108, 100>>

\* "{}" of an unsigned integer: its decimal digits
RECURSIVE Decimal(_)
Decimal(n) ==
    IF n < 10 THEN <<48 + n>> ELSE Decimal(n \div 10) \o <<48 + (n % 10)>>

\* (mutant) 500 is not in the table
status_message_without_500(status) ==
    CASE status = 200 -> <<79, 75>>
      [] status = 404 -> <<78, 111, 116, 32, 70, 111, 117, 110, 100>>
      [] OTHER -> <<85, 110, 107, 110, 111, 119, 110>>

\* match self.status { 200 => "OK", 404 => "Not Found",
\*                     500 => "Internal Server Error", _ => "Unknown" }
status_message(status) ==
    CASE status = 200 -> <<79, 75>>
      [] status = 404 -> <<78, 111, 116, 32, 70, 111, 117, 110, 100>>
      [] status = 500 ->
            <<73, 110, 116, 101, 114, 110, 97, 108, 32, 83, 101, 114, 118,
              101, 114, 32, 69, 114, 114, 111, 114>>
      [] OTHER -> <<85, 110, 107, 110, 111, 119, 110>>

\* Response::send: what is written to the stream; order is the order in
\* which the header map is iterated
Response_send(response, order) ==
    LET status_line ==
            Concat(<<HTTP_1_1, Decimal(response.status), <<32>>,
                     status_message(response.status), CRLF>>)
        header_lines ==
            Concat([i \in 1..Len(order) |->
                       Concat(<<order[i], <<58, 32>>,
                                response.headers[order[i]], CRLF>>)])
        data_to_write ==
            Concat(<<status_line, header_lines, CONTENT_LENGTH,
                     Decimal(Len(response.body)), CRLF, CRLF>>)
    IN  data_to_write \o response.body

\* the statuses, headers and bodies a caller gives a response
StatusInputs == {200, 404, 500, 201, 7}
HeaderInputs ==
    {<<CONTENT_TYPE, TEXT_PLAIN>>, <<CONTENT_TYPE, JSON>>, <<X_TEST, <<49>>>>}
BodyInputs == {<<>>, <<72, 105>>, HELLO_WORLD}

\* a caller holds Response::new()
InitSend ==
    /\ db = EmptyDB
    /\ used = {}
    /\ pc = "idle"
    /\ target = <<>>
    /\ iter = <<>>
    /\ last = Call("new", "ok", <<>>)
    /\ created = EmptyCF
    /\ current_step = TraversalBuilder_new(<<>>)
    /\ guard = [fn |-> "none", status |-> "none"]
    /\ BuilderNew(<<>>)
    /\ phase = "down"
    /\ routes = EmptyCF
    /\ chan = <<>>
    /\ conns = EmptyCF
    /\ workers = EmptyCF
    /\ mutex = 0
    /\ reply = Response_new
    /\ stream = <<>>
    /\ source_text = <<>>
    /\ parsed = NotParsed
    /\ inbound = NoStream
    /\ received = NotRead
    /\ generator = NoGenerator
    /\ code = <<>>

\* what the caller of send leaves alone
sendFrame ==
    <<storeVars, current_step, guard, builderVars, phase, routes, chan, conns,
      workers, mutex, compilerVars, readerVars, codegenVars>>

\* response.status = ..
SetStatus ==
    /\ stream = <<>>
    /\ \E status \in StatusInputs :
         /\ status # reply.status
         /\ reply' = [reply EXCEPT !.status = status]
    /\ UNCHANGED <<stream, sendFrame>>

\* response.headers.insert(..)
InsertHeader ==
    /\ stream = <<>>
    /\ \E h \in HeaderInputs :
         /\ reply' = [reply EXCEPT !.headers = MapPut(@, h[1], h[2])]
         /\ reply' # reply
    /\ UNCHANGED <<stream, sendFrame>>

\* response.body = ..
SetBody ==
    /\ stream = <<>>
    /\ \E b \in BodyInputs :
         /\ b # reply.body
         /\ reply' = [reply EXCEPT !.body = b]
    /\ UNCHANGED <<stream, sendFrame>>

\* response.send(&mut stream)
ResponseSend ==
    /\ stream = <<>>
    /\ \E order \in IterOrders(DOMAIN reply.headers) :
         stream' = stream \o Response_send(reply, order)
    /\ UNCHANGED <<reply, sendFrame>>

NextSend ==
    \/ SetStatus
    \/ InsertHeader
    \/ SetBody
    \/ ResponseSend

SpecSend == InitSend /\ [][NextSend]_vars

\* the reason phrase the status line carries
Phrase(status) ==
    IF status = 200 THEN <<79, 75>>
    ELSE IF status = 404 THEN <<78, 111, 116, 32, 70, 111, 117, 110, 100>>
    ELSE IF status = 500
         THEN <<73, 110, 116, 101, 114, 110, 97, 108, 32, 83, 101, 114, 118,
                101, 114, 32, 69, 114, 114, 111, 114>>
    ELSE <<85, 110, 107, 110, 111, 119, 110>>

\* lines, each ended by CR LF
RECURSIVE JoinLines(_)
JoinLines(lines) ==
    IF lines = <<>> THEN <<>>
    ELSE Head(lines) \o CRLF \o JoinLines(Tail(lines))

\* C23: what send writes is, in this order, the status line
\* "HTTP/1.1 <status> <phrase>", one line "<name>: <value>" for every header
\* of the response, the line "Content-Length: <number of body bytes>", an
\* empty line, and then exactly the body bytes.
C23_SendWritesResponse ==
    [][stream' # stream =>
         \E order \in IterOrders(DOMAIN reply.headers) :
            LET status_line ==
                    HTTP_1_1 \o Decimal(reply.status) \o <<32>>
                        \o Phrase(reply.status)
                headers == [i \in 1..Len(order) |->
                               order[i] \o <<58, 32>> \o reply.headers[order[i]]]
                length == CONTENT_LENGTH \o Decimal(Len(reply.body))
            IN  stream' =
                    JoinLines(<<status_line>> \o headers \o <<length, <<>>>>)
                        \o reply.body]_vars

\* a 500 response with two headers and a body of eleven bytes has been sent
C23_Witness ==
    /\ stream # <<>>
    /\ reply.status = 500
    /\ Cardinality(DOMAIN reply.headers) = 2
    /\ reply.body = HELLO_WORLD

(***************************************************************************)
(* helixc: HelixParser::parse_source.  The input is the list of its        *)
(* top-level items: a node-schema, an edge-schema or a query declaration,  *)
(* or text that is none of them.  A parsed declaration is kept as its      *)
(* position in the input.                                                  *)
(***************************************************************************)
\* number of top-level items of an input
MaxItems == 3

SourceItems == {"node_schema", "edge_schema", "query", "junk"}

\* HelixParser::parse(Rule::source, input): an error when the input is not
\* a list of declarations, else one pair per declaration and the EOI pair
HelixParser_parse(input) ==
    IF \E i \in DOMAIN input : input[i] = "junk"
    THEN [ok |-> FALSE, pairs |-> <<>>]
    ELSE [ok |-> TRUE,
          pairs |-> [i \in 1..(Len(input) + 1) |->
                        IF i <= Len(input) THEN [rule |-> input[i], at |-> i]
                        ELSE [rule |-> "EOI", at |-> i]]]

\* HelixParser::parse_source(input): .expect() on the result of the grammar,
\* then one push per pair, a panic on a rule that is none of the four
parse_source(input) ==
    LET r == HelixParser_parse(input)
        RECURSIVE loop(_, _)
        loop(i, source) ==
            IF i > Len(r.pairs) THEN [source EXCEPT !.status = "ok"]
            ELSE LET pair == r.pairs[i]
                 IN  CASE pair.rule = "node_schema" ->
                            loop(i + 1, [source EXCEPT
                                !.node_schemas = Append(@, pair.at)])
                       [] pair.rule = "edge_schema" ->
                            loop(i + 1, [source EXCEPT
                                !.edge_schemas = Append(@, pair.at)])
                       [] pair.rule = "query" ->
                            loop(i + 1, [source EXCEPT
                                !.queries = Append(@, pair.at)])
                       [] pair.rule = "EOI" -> loop(i + 1, source)
                       [] OTHER -> [NotParsed EXCEPT !.status = "panic"]
    IN  IF ~r.ok THEN [NotParsed EXCEPT !.status = "panic"]
        ELSE loop(1, NotParsed)

\* what the compiler leaves alone
compilerFrame ==
    <<storeVars, current_step, guard, builderVars, phase, routes, chan, conns,
      workers, mutex, sendVars, readerVars, codegenVars>>

\* one more top-level item is written into the input
WriteItem ==
    /\ parsed = NotParsed
    /\ Len(source_text) < MaxItems
    /\ \E item \in SourceItems : source_text' = Append(source_text, item)
    /\ UNCHANGED <<parsed, compilerFrame>>

\* HelixParser::parse_source(input)
ParseSource ==
    /\ parsed = NotParsed
    /\ parsed' = parse_source(source_text)
    /\ UNCHANGED <<source_text, compilerFrame>>

NextCompile ==
    \/ WriteItem
    \/ ParseSource

SpecCompile == Init /\ [][NextCompile]_vars

\* the positions of the declarations of a kind, in order
RECURSIVE Declared(_, _, _)
Declared(input, kind, i) ==
    IF i > Len(input) THEN <<>>
    ELSE (IF input[i] = kind THEN <<i>> ELSE <<>>)
            \o Declared(input, kind, i + 1)

\* C26: parse_source returns an error value for every input the grammar
\* rejects, never aborts its caller, and returns Ok only with a Source that
\* holds one entry per node-schema, edge-schema and query declaration of
\* the input.
C26_ParseSourceReturnsError ==
    parsed.status # "none" =>
        /\ parsed.status # "panic"
        /\ ~HelixParser_parse(source_text).ok => parsed.status = "err"
        /\ parsed.status = "ok" =>
             /\ parsed.node_schemas = Declared(source_text, "node_schema", 1)
             /\ parsed.edge_schemas = Declared(source_text, "edge_schema", 1)
             /\ parsed.queries = Declared(source_text, "query", 1)

(***************************************************************************)
(* C34: after any sequence of source and chained steps on a builder,       *)
(* whatever the store holds, the frontier holds at least one cell, so      *)
(* current_step[0] of the kind guard is defined and a further chained step *)
(* does not abort on an empty frontier.                                    *)
(***************************************************************************)
C34_FrontierNeverEmpty ==
    [][(current_step' # <<>>)
       /\ ((IsStep /\ trav'.op \in ChainedOps) =>
              check_is_valid_node_traversal(current_step) # Panic)]_vars

(***************************************************************************)
(* C37: after any sequence of source and chained steps all cells of the    *)
(* frontier are of one kind family, all of a node kind or all of an edge   *)
(* kind, so the kind of the first cell is the kind of the frontier.        *)
(***************************************************************************)
EdgeKinds == {"EdgeArray", "SingleEdge"}

C37_FrontierOfOneFamily ==
    \/ \A i \in DOMAIN current_step : current_step[i].kind \in NodeKinds
    \/ \A i \in DOMAIN current_step : current_step[i].kind \in EdgeKinds

\* reached: a frontier of two cells, after a chained step on two nodes
C37_Witness ==
    /\ Len(current_step) = 2
    /\ trav.op \in ChainedOps
    /\ trav.status = "ok"
    /\ nsteps >= 2

(***************************************************************************)
(* C36: in every state reached by completed storage calls made one after   *)
(* the other, get_out_edges, get_in_edges, get_out_nodes and get_in_nodes  *)
(* return Ok for every node id and label: every adjacency entry stored     *)
(* names an edge whose record is stored.                                   *)
(***************************************************************************)
AdjacencyEntries(d) ==
    {k \in DOMAIN d[CF_EDGES] :
        StartsWith(k, OUT_EDGES_PREFIX) \/ StartsWith(k, IN_EDGES_PREFIX)}

C36_AdjacencyReadsNeverAbort ==
    pc = "idle" =>
        /\ \A k \in AdjacencyEntries(db) :
             \E e \in EdgeRecordIds(db) : EndsWith(k, COLON \o e)
        /\ \A n \in NodeIdInputs, L \in LabelInputs :
             /\ get_out_edges(db, n, L).status = "ok"
             /\ get_in_edges(db, n, L).status = "ok"
             /\ get_out_nodes(db, n, L).status = "ok"
             /\ get_in_nodes(db, n, L).status = "ok"

\* reached: drop_edge and drop_node have returned and adjacency entries of
\* an edge that lost an endpoint are still scanned
C36_Witness ==
    /\ pc = "idle"
    /\ last.op = "drop_node"
    /\ last.status = "ok"
    /\ AdjacencyEntries(db) # {}
    /\ \E e \in EdgeIdPool : e \in used /\ e \notin EdgeRecordIds(db)

(***************************************************************************)
(* C38: the read steps v, e, out, in_, out_e and in_e, and the storage     *)
(* reads they are made of, leave every record and every index entry of the *)
(* store as it was; of the steps only add_v and add_e write.               *)
(***************************************************************************)
ReadSteps == {"v", "e", "out", "in_", "out_e", "in_e"}

C38_ReadsLeaveStore ==
    [][/\ (IsStep /\ trav'.op \in ReadSteps) => db' = db
       /\ (db' # db) => (IsStep /\ trav'.op \in {"add_v", "add_e"}
                            /\ trav'.status = "ok")]_vars

\* reached: a chained read step has returned cells read from a store that
\* holds nodes and an edge
C38_Witness ==
    /\ trav.op \in ChainedOps
    /\ trav.status = "ok"
    /\ FrontierItems(current_step) # <<>>
    /\ EdgeRecordIds(db) # {}

(***************************************************************************)
(* C39: a drop touches only its target.  drop_edge(e) leaves every node    *)
(* and every other edge (record, label-index entry, adjacency entries) as  *)
(* it was; drop_node(n) removes no node other than n and no edge that is   *)
(* not incident to n; create_node and create_edge neither change nor       *)
(* remove what was stored before the call.                                 *)
(***************************************************************************)
\* the entries stored for the edge id e: record, label index, adjacency
KeysOfEdge(d, e) ==
    {edge_key(e)} \cup
    {k \in DOMAIN d[CF_EDGES] :
        /\ \/ StartsWith(k, EDGE_LABEL_PREFIX)
           \/ StartsWith(k, OUT_EDGES_PREFIX)
           \/ StartsWith(k, IN_EDGES_PREFIX)
        /\ EndsWith(k, COLON \o e)}

\* the entries stored for the edges that have n as an endpoint
KeysOfEdgesAt(d, n) ==
    UNION {KeysOfEdge(d, e.id) :
             e \in {x \in StoredEdges(d) : x.from_node = n \/ x.to_node = n}}

\* the transition leaves every entry outside S as it was
Kept(S) ==
    \A cf \in ColumnFamilies : \A k \in (DOMAIN db[cf]) \ S :
        k \in DOMAIN db'[cf] /\ db'[cf][k] = db[cf][k]

\* the transition stores no new entry
NothingAdded ==
    \A cf \in ColumnFamilies : DOMAIN db'[cf] \subseteq DOMAIN db[cf]

\* the node the drop_node call of the transition was called with
DropTarget ==
    IF pc # "idle" THEN target ELSE IF pc' # "idle" THEN target' ELSE last'.id

C39_DropTouchesOnlyTarget ==
    [][/\ last'.op = "drop_edge" =>
            Kept(KeysOfEdge(db, last'.id)) /\ NothingAdded
       /\ last'.op = "drop_node" =>
            /\ Kept({node_key(DropTarget)} \cup KeysOfEdgesAt(db, DropTarget))
            /\ NothingAdded
       /\ last'.op \in {"create_node", "create_edge"} => Kept({})]_vars

\* reached: drop_node(n) has returned after deleting an edge at n, and a
\* node other than n and an edge not incident to n are stored
C39_Witness ==
    /\ pc = "idle"
    /\ last.op = "drop_node"
    /\ last.status = "ok"
    /\ NodeRecordIds(db) # {}
    /\ \E e \in EdgeIdPool : e \in used /\ e \notin EdgeRecordIds(db)
    /\ \E e \in StoredEdges(db) : e.from_node # last.id /\ e.to_node # last.id

(***************************************************************************)
(* The gateway with its threads scheduled fairly: a worker that can take   *)
(* the next step of its loop, or of the handler it runs, takes it.         *)
(***************************************************************************)
\* ENABLED <<HandlerV>>_vars: the step changes the pc of the worker it moves
HandlerVEnabled == \E w \in DOMAIN workers : workers[w].pc = "v"

\* the conjunct of HandlerV is WF_vars(HandlerV) with its ENABLED written out
SpecGatewayFair ==
    /\ SpecGateway
    /\ WF_vars(WorkerRecv)
    /\ WF_vars(WorkerParse)
    /\ WF_vars(WorkerHandle)
    /\ WF_vars(HandlerLock)
    /\ WF_vars(HandlerCreate)
    /\ ([]<>(~HandlerVEnabled) \/ []<><<HandlerV>>_vars)
    /\ WF_vars(HandlerOut)
    /\ WF_vars(HandlerTestRoute)
    /\ WF_vars(HandlerFailing)
    /\ WF_vars(WorkerUnwrap)

\* how often connection c is in the channel
InChannel(c) == Cardinality({i \in DOMAIN chan : chan[i] = c})
\* the workers that have received connection c and are not done with it
HeldBy(c) == {w \in DOMAIN workers : workers[w].conn = c}
\* a worker thread is alive
SomeWorkerAlive == \E w \in DOMAIN workers : workers[w].pc # "dead"

FailureSeen ==
    \E c \in DOMAIN conns : conns[c].handled /\ conns[c].result # "ok"

\* a worker has received connection c and router.handle has returned for it
Routed(c) == c \in DOMAIN conns /\ conns[c].handled

C35_FailureConfined ==
    /\ [](\A w \in DOMAIN workers : workers[w].pc = "dead" => mutex # w)
    /\ \A c \in 1..MaxConns :
          []((FailureSeen /\ c \notin DOMAIN conns)
                => [](c \in DOMAIN conns => <>Routed(c)))

(***************************************************************************)
(* helixc/src/generator/query_gen.rs: the steps a TraversalGenerator holds *)
(* and the code generate_code writes for them.  Text is a string of        *)
(* character codes; writeln! writes its text and a line feed.              *)
(***************************************************************************)
LF == <<10>>
FOLLOWS == <<102, 111, 108, 108, 111, 119, 115>>   \* "follows"
TEST_FUNCTION ==
    <<116, 101, 115, 116, 95, 102, 117, 110, 99, 116, 105, 111, 110>>   \* "test_function"

\* TraversalStep::V, E, Out { label }, ...: the variant and its label
TraversalStep(op, label) == [op |-> op, label |-> label]

\* "    traversal.v(storage);" and "    traversal.e(storage);"
LINE_V ==
    <<32, 32, 32, 32, 116, 114, 97, 118, 101, 114, 115, 97, 108, 46, 118,
      40, 115, 116, 111, 114, 97, 103, 101, 41, 59>>
LINE_E ==
    <<32, 32, 32, 32, 116, 114, 97, 118, 101, 114, 115, 97, 108, 46, 101,
      40, 115, 116, 111, 114, 97, 103, 101, 41, 59>>
\* the text before and after the label, per variant with a label
LINE_ADD_V ==
    <<32, 32, 32, 32, 116, 114, 97, 118, 101, 114, 115, 97, 108, 46, 97,
      100, 100, 95, 118, 40, 115, 116, 111, 114, 97, 103, 101, 44, 32, 34>>
LINE_OUT ==
    <<32, 32, 32, 32, 116, 114, 97, 118, 101, 114, 115, 97, 108, 46, 111,
      117, 116, 40, 115, 116, 111, 114, 97, 103, 101, 44, 32, 34>>
LINE_OUT_E ==
    <<32, 32, 32, 32, 116, 114, 97, 118, 101, 114, 115, 97, 108, 46, 111,
      117, 116, 95, 101, 40, 115, 116, 111, 114, 97, 103, 101, 44, 32, 34>>
LINE_IN ==
    <<32, 32, 32, 32, 116, 114, 97, 118, 101, 114, 115, 97, 108, 46, 105,
      110, 95, 40, 115, 116, 111, 114, 97, 103, 101, 44, 32, 34>>
LINE_IN_E ==
    <<32, 32, 32, 32, 116, 114, 97, 118, 101, 114, 115, 97, 108, 46, 105,
      110, 95, 101, 40, 115, 116, 111, 114, 97, 103, 101, 44, 32, 34>>
LINE_END ==
    <<34, 41, 59>>

\* (mutant) an In step is written as an out call
TraversalStep_generate_code_in_as_out(step) ==
    CASE step.op = "v" -> LINE_V \o LF
      [] step.op = "e" -> LINE_E \o LF
      [] step.op = "add_v" -> LINE_ADD_V \o step.label \o LINE_END \o LF
      [] step.op = "out" -> LINE_OUT \o step.label \o LINE_END \o LF
      [] step.op = "out_e" -> LINE_OUT_E \o step.label \o LINE_END \o LF
      [] step.op = "in_" -> LINE_OUT \o step.label \o LINE_END \o LF
      [] step.op = "in_e" -> LINE_IN_E \o step.label \o LINE_END \o LF

\* impl TraversalStepGenerator for TraversalStep: what is appended to f.
\* AddE is left out: no method of the generator pushes it.
TraversalStep_generate_code(step) ==
    CASE step.op = "v" -> LINE_V \o LF
      [] step.op = "e" -> LINE_E \o LF
      [] step.op = "add_v" -> LINE_ADD_V \o step.label \o LINE_END \o LF
      [] step.op = "out" -> LINE_OUT \o step.label \o LINE_END \o LF
      [] step.op = "out_e" -> LINE_OUT_E \o step.label \o LINE_END \o LF
      [] step.op = "in_" -> LINE_IN \o step.label \o LINE_END \o LF
      [] step.op = "in_e" -> LINE_IN_E \o step.label \o LINE_END \o LF

\* "pub fn ", "(storage: &HelixGraphStorage) -> TraversalBuilder {"
PUB_FN ==
    <<112, 117, 98, 32, 102, 110, 32>>
SIGNATURE ==
    <<40, 115, 116, 111, 114, 97, 103, 101, 58, 32, 38, 72, 101, 108, 105,
      120, 71, 114, 97, 112, 104, 83, 116, 111, 114, 97, 103, 101, 41, 32,
      45, 62, 32, 84, 114, 97, 118, 101, 114, 115, 97, 108, 66, 117, 105,
      108, 100, 101, 114, 32, 123>>
\* "    let mut traversal = TraversalBuilder::new(vec![]);"
LET_TRAVERSAL ==
    <<32, 32, 32, 32, 108, 101, 116, 32, 109, 117, 116, 32, 116, 114, 97,
      118, 101, 114, 115, 97, 108, 32, 61, 32, 84, 114, 97, 118, 101, 114,
      115, 97, 108, 66, 117, 105, 108, 100, 101, 114, 58, 58, 110, 101,
      119, 40, 118, 101, 99, 33, 91, 93, 41, 59>>
\* "    traversal" and "}"
RETURN_TRAVERSAL ==
    <<32, 32, 32, 32, 116, 114, 97, 118, 101, 114, 115, 97, 108>>
CLOSE_BRACE ==
    <<125>>

\* TraversalGenerator::generate_code
TraversalGenerator_generate_code(g) ==
    LET head == PUB_FN \o g.function_identifier \o SIGNATURE \o LF
                  \o LET_TRAVERSAL \o LF
        body == Concat([i \in DOMAIN g.steps |->
                           TraversalStep_generate_code(g.steps[i])])
    IN  head \o body \o RETURN_TRAVERSAL \o LF \o CLOSE_BRACE \o LF

\* TraversalGenerator::new(function_identifier)
TraversalGenerator_new(function_identifier) ==
    [function_identifier |-> function_identifier, steps |-> <<>>,
     state |-> NoState]

\* the methods v, e, out, out_e, in_, in_e: the step is pushed and the
\* generator returned is of the state the method's signature names
TraversalGenerator_push(g, op, label) ==
    [g EXCEPT !.steps = Append(@, TraversalStep(op, label)),
              !.state = TraversalGenerator_step(g.state, op)]

(***************************************************************************)
(* A generator built method by method, as the compiler does for a query,   *)
(* and asked for its code.                                                 *)
(***************************************************************************)
\* the labels of test_type_safe_traversal
GenLabels == {KNOWS, FOLLOWS, LIKES}

\* what the generator's caller leaves alone
codegenFrame ==
    <<storeVars, current_step, guard, builderVars, phase, routes, chan, conns,
      workers, mutex, sendVars, compilerVars, readerVars>>

GenNew ==
    /\ generator = NoGenerator
    /\ generator' = TraversalGenerator_new(TEST_FUNCTION)
    /\ UNCHANGED <<code, codegenFrame>>

\* .v() or .e(): the methods of TraversalGenerator<NoState>
GenSource ==
    /\ code = <<>>
    /\ generator.state = NoState
    /\ \E op \in {"v", "e"} :
         generator' = TraversalGenerator_push(generator, op, <<>>)
    /\ UNCHANGED <<code, codegenFrame>>

\* .out(l), .out_e(l), .in_(l), .in_e(l): the methods of
\* TraversalGenerator<VertexState>
GenChained ==
    /\ code = <<>>
    /\ generator.state = VertexState
    /\ Len(generator.steps) < MaxSteps
    /\ \E op \in {"out", "out_e", "in_", "in_e"}, label \in GenLabels :
         generator' = TraversalGenerator_push(generator, op, label)
    /\ UNCHANGED <<code, codegenFrame>>

\* generator.generate_code().unwrap()
GenerateCode ==
    /\ code = <<>>
    /\ generator # NoGenerator
    /\ code' = TraversalGenerator_generate_code(generator)
    /\ UNCHANGED <<generator, codegenFrame>>

NextCodegen ==
    \/ GenNew
    \/ GenSource
    \/ GenChained
    \/ GenerateCode

SpecCodegen == Init /\ [][NextCodegen]_vars

\* the lines of a text, each ended by a line feed
RECURSIVE LinesOf(_)
LinesOf(text) ==
    IF text = <<>> THEN <<>>
    ELSE LET n == CHOOSE i \in 1..(Len(text) + 1) :
                    /\ i = Len(text) + 1 \/ text[i] = 10
                    /\ \A j \in 1..(i - 1) : text[j] # 10
         IN  <<SubSeq(text, 1, n - 1)>>
                \o LinesOf(SubSeq(text, n + 1, Len(text)))

\* the name of the builder method a step stands for
TRAVERSAL_DOT ==
    <<32, 32, 32, 32, 116, 114, 97, 118, 101, 114, 115, 97, 108, 46>>
OPEN_STORAGE ==
    <<40, 115, 116, 111, 114, 97, 103, 101>>
MethodName(op) ==
    CASE op = "v" -> <<118>>
      [] op = "e" -> <<101>>
      [] op = "out" -> <<111, 117, 116>>
      [] op = "out_e" -> <<111, 117, 116, 95, 101>>
      [] op = "in_" -> <<105, 110, 95>>
      [] op = "in_e" -> <<105, 110, 95, 101>>

\* the call of the builder method of a step, with the label as its argument
CallLine(step) ==
    TRAVERSAL_DOT \o MethodName(step.op) \o OPEN_STORAGE
       \o (IF step.op \in {"v", "e"} THEN <<>>
           ELSE <<44, 32, 34>> \o step.label \o <<34>>)
       \o <<41, 59>>

(***************************************************************************)
(* C33: generate_code emits one function whose body is the line that makes *)
(* the builder, then exactly one method-call line per step added to the    *)
(* generator, in the order the steps were added and with the label of each *)
(* step as argument, then the line that returns the builder; no step is    *)
(* dropped, duplicated or reordered.                                       *)
(***************************************************************************)
C33_OneLinePerStep ==
    code # <<>> =>
        LET lines == LinesOf(code)
            n == Len(generator.steps)
        IN  /\ Len(lines) = n + 4
            /\ lines[1] = PUB_FN \o generator.function_identifier \o SIGNATURE
            /\ lines[2] = LET_TRAVERSAL
            /\ \A i \in 1..n : lines[2 + i] = CallLine(generator.steps[i])
            /\ lines[n + 3] = RETURN_TRAVERSAL
            /\ lines[n + 4] = CLOSE_BRACE
            /\ code[Len(code)] = 10

\* reached: the code of the generator of test_type_safe_traversal
C33_Witness ==
    /\ code # <<>>
    /\ generator.steps = << TraversalStep("v", <<>>), TraversalStep("out", KNOWS),
                            TraversalStep("in_", FOLLOWS) >>

(***************************************************************************)
(* helix-gateway/src/router/request.rs: Request::from_stream reading from  *)
(* a stream.  A stream is the list of byte strings its reads return one    *)
(* after the other, and whether the peer keeps it open after the last: a   *)
(* read of an open stream that has nothing left blocks, a read of a closed *)
(* one returns 0 bytes.  Bytes are ASCII, which from_utf8_lossy keeps.      *)
(***************************************************************************)
\* pat is in text at position i
IsAt(text, pat, i) ==
    /\ i + Len(pat) - 1 <= Len(text)
    /\ SubSeq(text, i, i + Len(pat) - 1) = pat

\* str::contains
contains(text, pat) == \E i \in 1..Len(text) : IsAt(text, pat, i)

\* str::lines: the text cut at each "\n", a "\r" before it taken off; a
\* last line needs no "\n"
RECURSIVE str_lines(_)
str_lines(text) ==
    IF text = <<>> THEN <<>>
    ELSE IF \E i \in 1..Len(text) : text[i] = 10
    THEN LET n == CHOOSE i \in 1..Len(text) :
                     text[i] = 10 /\ \A j \in 1..(i - 1) : text[j] # 10
             line == SubSeq(text, 1, n - 1)
         IN  << IF line # <<>> /\ line[Len(line)] = 13
                THEN SubSeq(line, 1, Len(line) - 1) ELSE line >>
                \o str_lines(SubSeq(text, n + 1, Len(text)))
    ELSE <<text>>

\* char::is_whitespace on ASCII
WhiteSpace == {9, 10, 11, 12, 13, 32}

\* str::split_whitespace: the words of a line
RECURSIVE split_whitespace(_)
split_whitespace(line) ==
    IF line = <<>> THEN <<>>
    ELSE IF Head(line) \in WhiteSpace THEN split_whitespace(Tail(line))
    ELSE LET n == CHOOSE i \in 1..(Len(line) + 1) :
                     /\ i = Len(line) + 1 \/ line[i] \in WhiteSpace
                     /\ \A j \in 1..(i - 1) : line[j] \notin WhiteSpace
         IN  <<SubSeq(line, 1, n - 1)>>
                \o split_whitespace(SubSeq(line, n, Len(line)))

\* str::split_once: the text before and after the first pat
split_once(line, pat) ==
    IF ~contains(line, pat) THEN None
    ELSE LET n == CHOOSE i \in 1..Len(line) :
                     IsAt(line, pat, i) /\ \A j \in 1..(i - 1) : ~IsAt(line, pat, j)
         IN  Some(<<SubSeq(line, 1, n - 1),
                    SubSeq(line, n + Len(pat), Len(line))>>)

\* str::parse::<usize>: decimal digits, a "+" allowed before them
RECURSIVE DigitsValue(_)
DigitsValue(s) ==
    IF s = <<>> THEN 0 ELSE DigitsValue(SubSeq(s, 1, Len(s) - 1)) * 10
                              + (s[Len(s)] - 48)
parse_usize(s) ==
    LET digits == IF s # <<>> /\ s[1] = 43 THEN Tail(s) ELSE s
    IN  IF digits # <<>> /\ \A i \in DOMAIN digits : digits[i] \in 48..57
        THEN Ok(DigitsValue(digits)) ELSE Err("ParseIntError")

\* the loop that reads until the text read holds "\r\n\r\n" or a read
\* returns 0 bytes: the text read and the number of reads made
RECURSIVE read_until_blank_line(_, _, _)
read_until_blank_line(s, i, request_data) ==
    IF i > Len(s.chunks)
    THEN IF s.open THEN [status |-> "blocked"]
         ELSE [status |-> "ok", request_data |-> request_data, reads |-> i - 1]
    ELSE LET data == request_data \o s.chunks[i]
         IN  IF contains(data, CRLF \o CRLF) \/ s.chunks[i] = <<>>
             THEN [status |-> "ok", request_data |-> data, reads |-> i]
             ELSE read_until_blank_line(s, i + 1, data)

\* for line in lines { .. headers.insert(key, value) }, up to an empty line
RECURSIVE read_headers(_, _)
read_headers(lines, headers) ==
    IF lines = <<>> \/ Head(lines) = <<>> THEN headers
    ELSE LET kv == split_once(Head(lines), <<58, 32>>)
         IN  read_headers(Tail(lines),
                          IF kv.some THEN MapPut(headers, kv.val[1], kv.val[2])
                          ELSE headers)

\* Read::read_exact on what the stream has left after reads reads
read_exact(s, reads, length) ==
    LET left == Concat(SubSeq(s.chunks, reads + 1, Len(s.chunks)))
    IN  IF Len(left) >= length THEN Ok(SubSeq(left, 1, length))
        ELSE IF s.open THEN [status |-> "blocked"]
        ELSE Err("UnexpectedEof")

CONTENT_LENGTH_KEY == SubSeq(CONTENT_LENGTH, 1, 14)     \* "Content-Length"

\* Request::from_stream(stream): Ok(Request), Err(io::Error), or no return
from_stream(s) ==
    LET r == read_until_blank_line(s, 1, <<>>)
    IN  IF r.status # "ok" THEN [status |-> r.status]
        ELSE
          LET lines == str_lines(r.request_data)
              first_line == IF lines = <<>> THEN <<>> ELSE Head(lines)
              parts == split_whitespace(first_line)
              headers == read_headers(IF lines = <<>> THEN <<>> ELSE Tail(lines),
                                      EmptyCF)
              length == IF CONTENT_LENGTH_KEY \in DOMAIN headers
                        THEN parse_usize(headers[CONTENT_LENGTH_KEY])
                        ELSE Err("None")
              body == IF length.status = "ok"
                      THEN read_exact(s, r.reads, length.val)
                      ELSE Ok(<<>>)
          IN  IF body.status # "ok" THEN [status |-> body.status]
              ELSE [status |-> "ok",
                    method |-> IF Len(parts) >= 1 THEN parts[1] ELSE GET,
                    path |-> IF Len(parts) >= 2 THEN parts[2] ELSE SLASH,
                    headers |-> headers,
                    body |-> body.val]

(***************************************************************************)
(* A client writes one request with a Content-Length header; the bytes     *)
(* reach the reader cut into at most MaxCuts + 1 reads.                    *)
(***************************************************************************)
\* number of places at which the bytes of a request are cut into reads
MaxCuts == 2

\* the requests a client sends: method, path, a header of its own, body
SentInputs ==
    { [method |-> GET, path |-> <<47, 97>>, host |-> FALSE,
       body |-> <<104, 105>>],
      [method |-> POST, path |-> <<47, 98>>, host |-> TRUE, body |-> <<>>],
      [method |-> POST, path |-> <<47, 99>>, host |-> TRUE,
       body |-> <<97, 13, 10, 98>>] }

\* " HTTP/1.1" and "Host: x"
REQUEST_VERSION == <<32>> \o SubSeq(HTTP_1_1, 1, 8)
HOST_X == <<72, 111, 115, 116, 58, 32, 120>>

\* the bytes of a request: request line, headers, blank line, body
Wire(sent) ==
    Concat(<< sent.method, <<32>>, sent.path, REQUEST_VERSION, CRLF,
              IF sent.host THEN HOST_X \o CRLF ELSE <<>>,
              CONTENT_LENGTH, Decimal(Len(sent.body)), CRLF,
              CRLF, sent.body >>)

\* the ways to choose at most k ascending cut positions in lo..hi
RECURSIVE Cuts(_, _, _)
Cuts(k, lo, hi) ==
    IF k = 0 \/ lo > hi THEN {<<>>}
    ELSE {<<>>} \cup
         UNION {{<<c>> \o rest : rest \in Cuts(k - 1, c + 1, hi)} : c \in lo..hi}

\* text cut after each of the positions of cuts
ChunksOf(text, cuts) ==
    [i \in 1..(Len(cuts) + 1) |->
        SubSeq(text,
               IF i = 1 THEN 1 ELSE cuts[i - 1] + 1,
               IF i = Len(cuts) + 1 THEN Len(text) ELSE cuts[i])]

\* what the reader's caller leaves alone
readerFrame ==
    <<storeVars, current_step, guard, builderVars, phase, routes, chan, conns,
      workers, mutex, sendVars, compilerVars, codegenVars>>

\* the client writes a request and keeps the stream open for the answer, or
\* shuts its side down
ClientWrites ==
    /\ inbound = NoStream
    /\ \E sent \in SentInputs, open \in BOOLEAN :
         \E cuts \in Cuts(MaxCuts, 1, Len(Wire(sent)) - 1) :
            inbound' = [chunks |-> ChunksOf(Wire(sent), cuts), open |-> open,
                        sent |-> sent]
    /\ UNCHANGED <<received, readerFrame>>

\* Request::from_stream(&mut conn)
FromStream ==
    /\ inbound # NoStream
    /\ received = NotRead
    /\ received' = from_stream(inbound)
    /\ UNCHANGED <<inbound, readerFrame>>

NextReader ==
    \/ ClientWrites
    \/ FromStream

SpecReader == Init /\ [][NextReader]_vars

(***************************************************************************)
(* C32: for every request that carries a Content-Length header of value k, *)
(* however its bytes are split over the reads of the stream (headers and   *)
(* body arriving in one read included), from_stream returns a request      *)
(* whose body is exactly the k bytes after the blank line and whose method *)
(* and path are the first two words of the first line.                     *)
(***************************************************************************)
C32_BodyIsContentLengthBytes ==
    (inbound # NoStream /\ received # NotRead) =>
        /\ received.status = "ok"
        /\ received.method = inbound.sent.method
        /\ received.path = inbound.sent.path
        /\ received.body = inbound.sent.body

====
